---- MODULE Spec2Model ----
(***************************************************************************)
(* Model of the cross-source identity-mapping and metrics-caching engine   *)
(* of manga-helper: the persistent store (src/utils/storage.ts), the       *)
(* session store (src/stores/mappings.ts, src/stores/manga.ts), the        *)
(* router (BaseRouter.init), the manga pages (MangaLib / Senkuro           *)
(* MangaPage), the source adapter search (MangaBuffAPI.search) and the     *)
(* retry primitive (BasePlatformAPI.fetch).                                *)
(*                                                                         *)
(* Every async function is a process; one action runs the code from one    *)
(* await to the next, which is how the single-threaded event loop          *)
(* interleaves them.                                                       *)
(***************************************************************************)
EXTENDS Integers, Sequences, FiniteSets, TLC

----------------------------------------------------------------------------
(* Bounds of the model *)

\* number of router.init() calls (the first page load and the navigations)
MaxNav == 3
\* number of environment events: navigations after the first, clicks, clock ticks
MaxEvents == 2
\* number of user clicks (refresh / save link / delete link)
MaxUser == 2
\* the clock runs from 0 to MaxTime
MaxTime == 2
\* fetch: largest maxRetries argument tried
MaxRetriesArg == 6

\* DEFAULT_TTL of storage.ts (one hour); the model's clock ticks in hours
DEFAULT_TTL == 1
\* DEFAULT_MAX_RETRIES of the base adapter
DEFAULT_MAX_RETRIES == 3

----------------------------------------------------------------------------
(* Values *)

\* JavaScript's undefined / null, and the negative marker `false`
Undef == "<undefined>"
Null == "<null>"
Neg == "<false>"

\* the platform the content script (router) runs on
Sites == {"mangalib", "senkuro"}
\* the other platform whose adapter is modelled
Targets == {"mangabuff"}
\* slugs of works on the source platform; "" is what getSlugFromUrl gives
\* for a URL that holds no slug
WorkSlugs == {"a", "b"}
\* slugs on the target platform
TargetSlugs == {"x", "y"}
\* pages the browser can show: the manga page of a work, or a page no route matches
Urls == WorkSlugs \cup {"other"}

IsString(v) == v \in TargetSlugs

----------------------------------------------------------------------------
(* JavaScript objects as functions with a finite domain of keys *)

EmptyObj == [k \in {} |-> Undef]

Assign(obj, k, v) == [x \in (DOMAIN obj) \cup {k} |-> IF x = k THEN v ELSE obj[x]]

Remove(obj, k) == [x \in (DOMAIN obj) \ {k} |-> obj[x]]

\* all[platform]?.[slug] ?? {}
SlugObj(all, platform, slug) ==
  IF platform \in DOMAIN all /\ slug \in DOMAIN all[platform]
  THEN all[platform][slug] ELSE EmptyObj

\* all[platform]?.[slug]?.[targetPlatform] !== undefined
Has3(all, platform, slug, targetPlatform) ==
  targetPlatform \in DOMAIN SlugObj(all, platform, slug)

\* if (!all[p]) all[p] = {}; if (!all[p][s]) all[p][s] = {}; all[p][s][t] = v
Put3(all, platform, slug, targetPlatform, v) ==
  LET byPlatform == IF platform \in DOMAIN all THEN all[platform] ELSE EmptyObj
      bySlug == IF slug \in DOMAIN byPlatform THEN byPlatform[slug] ELSE EmptyObj
  IN Assign(all, platform, Assign(byPlatform, slug, Assign(bySlug, targetPlatform, v)))

\* a delete that removes the leaf key only
Delete3Leaf(all, platform, slug, targetPlatform) ==
  IF ~Has3(all, platform, slug, targetPlatform) THEN all
  ELSE Assign(all, platform,
              Assign(all[platform], slug, Remove(all[platform][slug], targetPlatform)))

\* delete all[p][s][t], then "Clean up empty objects"
Delete3(all, platform, slug, targetPlatform) ==
  IF ~Has3(all, platform, slug, targetPlatform) THEN all
  ELSE LET bySlug == Remove(all[platform][slug], targetPlatform)
           byPlatform == IF DOMAIN bySlug = {}
                         THEN Remove(all[platform], slug)
                         ELSE Assign(all[platform], slug, bySlug)
       IN IF DOMAIN byPlatform = {} THEN Remove(all, platform)
          ELSE Assign(all, platform, byPlatform)

----------------------------------------------------------------------------
(* Persistent store: src/utils/storage.ts *)

\* manualMappings.get: "Manual mappings only store strings, never false"
ManualGet(all, platform, slug, targetPlatform) ==
  IF Has3(all, platform, slug, targetPlatform)
     /\ IsString(all[platform][slug][targetPlatform])
  THEN all[platform][slug][targetPlatform] ELSE Null

\* manualMappings.getAllForSlug
ManualGetAllForSlug(all, platform, slug) == SlugObj(all, platform, slug)

\* a get that never takes an entry as expired; C12 rules it out
ExpiredNever(entry, t) == FALSE

\* the lazy expiry test of autoMappings.get and cache.get: Date.now() > entry.expires
ExpiredAtGet(entry, t) == t > entry.expires

\* a get that takes the value false as an absent entry; C16 rules it out
AutoGetTruthy(all, platform, slug, targetPlatform, t) ==
  IF ~Has3(all, platform, slug, targetPlatform) THEN Null
  ELSE IF ExpiredAtGet(all[platform][slug][targetPlatform], t) THEN Null
  ELSE IF all[platform][slug][targetPlatform].value = Neg THEN Null
  ELSE all[platform][slug][targetPlatform].value

\* autoMappings.get
AutoGet(all, platform, slug, targetPlatform, t) ==
  IF ~Has3(all, platform, slug, targetPlatform) THEN Null
  ELSE IF ExpiredAtGet(all[platform][slug][targetPlatform], t) THEN Null
  ELSE all[platform][slug][targetPlatform].value

\* autoMappings.set: the entry written with expires = Date.now() + ttl
AutoSetTtl(all, platform, slug, targetPlatform, targetSlug, t, ttl) ==
  Put3(all, platform, slug, targetPlatform,
       [value |-> targetSlug, expires |-> t + ttl])

\* autoMappings.set with "ttl: number = DEFAULT_TTL"
AutoSet(all, platform, slug, targetPlatform, targetSlug, t) ==
  AutoSetTtl(all, platform, slug, targetPlatform, targetSlug, t, DEFAULT_TTL)

\* autoMappings.getAllForSlug: "Filter expired and extract values"
AutoGetAllForSlug(all, platform, slug, t) ==
  LET entries == SlugObj(all, platform, slug)
      valid == {tp \in DOMAIN entries : entries[tp].expires > t}
  IN [tp \in valid |-> entries[tp].value]

\* a sweep that takes an entry as expired from the moment of its expiry on
ExpiredAtFlushEarly(entry, t) == entry.expires <= t

\* a sweep that takes no entry as expired
ExpiredAtFlushNever(entry, t) == FALSE

\* the sweep's test: expires < now
ExpiredAtFlush(entry, t) == entry.expires < t

\* autoMappings.flushExpired: [all |-> the swept object, changed |-> whether it writes]
AutoFlushExpired(all, t) ==
  LET keepT(p, s) == {tp \in DOMAIN all[p][s] : ~ExpiredAtFlush(all[p][s][tp], t)}
      keepS(p) == {s \in DOMAIN all[p] : keepT(p, s) # {}}
      keepP == {p \in DOMAIN all : keepS(p) # {}}
  IN [all |-> [p \in keepP |-> [s \in keepS(p) |-> [tp \in keepT(p, s) |-> all[p][s][tp]]]],
      changed |-> \E p \in DOMAIN all : \E s \in DOMAIN all[p] :
                     keepT(p, s) # DOMAIN all[p][s]]

\* getTargetSlug: manual > auto > none
\* a resolution that asks Auto before Manual, the order C1 rules out
GetTargetSlugAutoFirst(manualAll, autoAll, fromPlatform, slug, toPlatform, t) ==
  LET m == ManualGet(manualAll, fromPlatform, slug, toPlatform)
      a == AutoGet(autoAll, fromPlatform, slug, toPlatform, t)
  IN IF a # Null THEN [slug |-> a, source |-> "auto"]
     ELSE IF m # Null THEN [slug |-> m, source |-> "manual"]
     ELSE [slug |-> Null, source |-> "none"]

GetTargetSlug(manualAll, autoAll, fromPlatform, slug, toPlatform, t) ==
  LET m == ManualGet(manualAll, fromPlatform, slug, toPlatform)
      a == AutoGet(autoAll, fromPlatform, slug, toPlatform, t)
  IN IF m # Null THEN [slug |-> m, source |-> "manual"]
     ELSE IF a # Null THEN [slug |-> a, source |-> "auto"]
     ELSE [slug |-> Null, source |-> "none"]

----------------------------------------------------------------------------
(* State *)

VARIABLES
  site,                   \* platformKey of the router of this content script
  now,                    \* Date.now()
  manual, auto,           \* storage: sync:manual, local:auto
  currentPlatform, currentSlug, manualLinks, autoLinks,
  loading, loadingPlatforms,          \* useMappingsStore
  titles,                 \* useMangaStore
  url,                    \* window.location
  navigationId, currentPage, currentAbortController,   \* BaseRouter fields
  initPc, initPath,       \* the init() calls: position, captured pathname
  pagePc, pageSlug, destroyed,        \* the pages, one per init() that creates one
  aborted,                \* the AbortController of each page context
  ui,                     \* the pages whose button and modal containers are mounted
  modalPlatform,          \* useMangaStore: the platform the edit modal is open for
  cache,                  \* storage: local:cache
  tasks,                  \* the discovery tasks and user-action handlers in flight
  clicks,                 \* number of user clicks so far
  events,                 \* number of environment events so far
  linksFor,               \* history: the work whose links the session state holds
  negLoaded,              \* history: the stored negative results the session has held
  fetchCall,              \* a call of BasePlatformAPI.fetch
  storageCall,            \* the last call of the persistent store or the session store, and its result
  searchCall,             \* a call of an adapter's search(): its inputs, the titles queried, the mapping saved
  remoteCalls,            \* a call of an adapter's search(), request by request
  writers                 \* calls of autoMappings set / delete / flushExpired between their read and their write

storageVars == <<manual, auto, cache>>
mappingsVars == <<currentPlatform, currentSlug, manualLinks, autoLinks, loading,
                  loadingPlatforms, linksFor>>
routerVars == <<navigationId, currentPage, currentAbortController>>
pageVars == <<pagePc, pageSlug, destroyed, ui>>
taskVars == <<tasks, clicks>>
envVars == <<site, now, url, events>>

Navs == 1..MaxNav

\* no page / no controller
NoPage == 0

\* history: a stored negative result enters negLoaded when the session state of
\* its work holds it, and leaves when it is deleted or replaced in the storage
NegLoadedStep ==
  negLoaded' =
    {id \in WorkSlugs \X Targets :
       /\ Has3(auto', site, id[1], id[2])
       /\ auto'[site][id[1]][id[2]].value = Neg
       /\ \/ id \in negLoaded
          \/ /\ currentSlug' = id[1]
             /\ linksFor' = id[1]
             /\ id[2] \in DOMAIN autoLinks'
             /\ autoLinks'[id[2]] = Neg}

\* no call of the stores yet
NoCall ==
  [op |-> "none", args |-> <<>>, ctx |-> <<>>, repeated |-> FALSE, io |-> "ok",
   outcome |-> "none", value |-> [slug |-> Null], at |-> 0, ttl |-> 0,
   afterSet |-> FALSE]

\* the calls of the Auto partition that may overlap
MaxWriters == 3

Writers == 1..MaxWriters

\* a call that has not started
IdleWriter == [pc |-> "idle", op |-> "none", tp |-> Null, all |-> EmptyObj, at |-> 0]

\* no call of an adapter's search
NoSearch ==
  [pc |-> "none", adapter |-> Null, remote |-> <<>>, failed |-> {}, noData |-> {},
   titles |-> <<>>,
   queried |-> <<>>, saved |-> Null]

\* no search() whose requests are followed
NoCalls ==
  [pc |-> "idle", adapter |-> Null, titles |-> <<>>, idx |-> 0, call |-> "none",
   attempt |-> 0, matched |-> FALSE, cands |-> 0, signal |-> FALSE,
   \* history: requests in flight, searchByTitle calls, requests sent for them,
   \* a request was sent with the signal aborted
   inFlight |-> 0, queries |-> 0, requests |-> 0, late |-> FALSE]

\* no call of fetch
IdleFetch ==
  [pc |-> "idle", maxRetries |-> 0, attempt |-> 0, outcomes |-> <<>>, result |-> Null,
   backoff |-> 0, timer |-> "off", sent |-> [signal |-> FALSE]]

----------------------------------------------------------------------------
(* Router: BaseRouter.init, and the pages' lifecycle *)

\* the route table of the site's router: the manga route matches a manga URL
RouteMatches(pathname) == pathname \in WorkSlugs

\* api.getSlugFromURL(window.location.href) || ''
GetSlugFromUrl(u) == IF u \in WorkSlugs THEN u ELSE ""

\* the titles fetchMangaData obtains for a work (never empty: the slug is the fallback)
TitlesOf(slug) ==
  CASE slug = "a" -> <<"A1">>
    [] slug = "b" -> <<"B1", "B2">>
    [] OTHER -> <<"">>

\* an init() that never looks at navigationId, the lapse C7 rules out
NeverSuperseded(i) == FALSE

\* if (this.navigationId !== currentNavId) return
Superseded(i) == navigationId # i

\* useMappingsStore reset()
MappingsReset ==
  /\ currentPlatform' = Null
  /\ currentSlug' = Null
  /\ manualLinks' = EmptyObj
  /\ autoLinks' = EmptyObj
  /\ loading' = FALSE
  /\ loadingPlatforms' = {}
  /\ linksFor' = Null

\* MangaPage.destroy(): the MangaLib page resets both stores, the other pages
\* reset the manga store only
PageDestroy(j) ==
  /\ destroyed' = [destroyed EXCEPT ![j] = TRUE]
  /\ ui' = ui \ {j}
  /\ titles' = <<>>
  /\ modalPlatform' = Null
  /\ IF site = "mangalib" THEN MappingsReset ELSE UNCHANGED mappingsVars

\* main(): router.init() on the page the content script was loaded in
Main ==
  /\ navigationId = 0
  /\ navigationId' = 1
  /\ initPc' = [initPc EXCEPT ![1] = "preInit"]
  /\ initPath' = [initPath EXCEPT ![1] = url]
  /\ UNCHANGED <<negLoaded, fetchCall, storageCall, searchCall, remoteCalls, writers, site, now, events, storageVars, mappingsVars, titles, url,
                 currentPage, currentAbortController, pageVars, aborted, modalPlatform, taskVars>>

\* a 'locationchange' event: the URL changed and init() is called again
LocationChange(u) ==
  /\ events < MaxEvents
  /\ events' = events + 1
  /\ navigationId >= 1
  /\ navigationId < MaxNav
  /\ u # url
  /\ url' = u
  /\ navigationId' = navigationId + 1
  /\ initPc' = [initPc EXCEPT ![navigationId + 1] = "preInit"]
  /\ initPath' = [initPath EXCEPT ![navigationId + 1] = u]
  /\ UNCHANGED <<negLoaded, fetchCall, storageCall, searchCall, remoteCalls, writers, site, now, storageVars, mappingsVars, titles,
                 currentPage, currentAbortController, pageVars, aborted, modalPlatform, taskVars>>

\* init(): an await (preInit, destroy of the previous page) completed and the
\* navigation was superseded meanwhile
InitSuperseded(i) ==
  /\ initPc[i] \in {"preInit", "destroy"}
  /\ Superseded(i)
  /\ initPc' = [initPc EXCEPT ![i] = "done"]
  /\ UNCHANGED <<negLoaded, fetchCall, storageCall, searchCall, remoteCalls, writers, site, now, events, storageVars, mappingsVars, titles, url, routerVars,
                 initPath, pageVars, aborted, modalPlatform, taskVars>>

\* init(): "Destroy previous page before creating new one"
InitDestroyPrevious(i) ==
  /\ initPc[i] = "preInit"
  /\ ~Superseded(i)
  /\ currentPage # NoPage
  /\ currentPage' = NoPage
  /\ PageDestroy(currentPage)
  /\ initPc' = [initPc EXCEPT ![i] = "destroy"]
  /\ UNCHANGED <<fetchCall, storageCall, searchCall, remoteCalls, writers, site, now, events, storageVars, url, navigationId, currentAbortController,
                 initPath, pagePc, pageSlug, aborted, taskVars>>
  /\ NegLoadedStep

\* init() is past the destroy of the previous page, if there was one
InitAtRoute(i) ==
  /\ ~Superseded(i)
  /\ \/ initPc[i] = "preInit" /\ currentPage = NoPage
     \/ initPc[i] = "destroy"

\* init(): createPageContext() aborts the previous controller, then
\* createInstance() constructs the page and calls initialize(), which awaits
\* waitForElement
InitCreatePage(i) ==
  /\ InitAtRoute(i)
  /\ RouteMatches(initPath[i])
  /\ aborted' = IF currentAbortController = NoPage THEN aborted
                ELSE [aborted EXCEPT ![currentAbortController] = TRUE]
  /\ currentAbortController' = i
  /\ pagePc' = [pagePc EXCEPT ![i] = "waitEl"]
  /\ initPc' = [initPc EXCEPT ![i] = "create"]
  /\ UNCHANGED <<negLoaded, fetchCall, storageCall, searchCall, remoteCalls, writers, site, now, events, storageVars, mappingsVars, titles, url, navigationId,
                 currentPage, initPath, pageSlug, destroyed, ui, modalPlatform, taskVars>>

\* init(): "No route matched, no page created"
InitNoRoute(i) ==
  /\ InitAtRoute(i)
  /\ ~RouteMatches(initPath[i])
  /\ initPc' = [initPc EXCEPT ![i] = "done"]
  /\ UNCHANGED <<negLoaded, fetchCall, storageCall, searchCall, remoteCalls, writers, site, now, events, storageVars, mappingsVars, titles, url, routerVars,
                 initPath, pageVars, aborted, modalPlatform, taskVars>>

\* initialize(): the DOM elements are there; the slug is read from the URL and
\* setContext() sets the context and starts the two storage reads
PageSetContext(j) ==
  /\ pagePc[j] = "waitEl"
  /\ pageSlug' = [pageSlug EXCEPT ![j] = GetSlugFromUrl(url)]
  /\ loading' = TRUE
  /\ currentPlatform' = site
  /\ currentSlug' = GetSlugFromUrl(url)
  /\ pagePc' = [pagePc EXCEPT ![j] = "ctx"]
  /\ UNCHANGED <<linksFor, fetchCall, storageCall, searchCall, remoteCalls, writers, site, now, events, storageVars, manualLinks, autoLinks, loadingPlatforms,
                 titles, url, routerVars, initPc, initPath, destroyed, ui, aborted,
                 modalPlatform, taskVars>>
  /\ NegLoadedStep

\* setContext(): the reads of getAllForSlug completed; the links are set, and
\* initialize() goes on to fetchMangaData
PageContextLoaded(j) ==
  /\ pagePc[j] = "ctx"
  /\ manualLinks' = ManualGetAllForSlug(manual, site, pageSlug[j])
  /\ autoLinks' = AutoGetAllForSlug(auto, site, pageSlug[j], now)
  /\ loading' = FALSE
  /\ pagePc' = [pagePc EXCEPT ![j] = "data"]
  /\ linksFor' = pageSlug[j]
  /\ UNCHANGED <<fetchCall, storageCall, searchCall, remoteCalls, writers, site, now, events, storageVars, currentPlatform, currentSlug, loadingPlatforms,
                 titles, url, routerVars, initPc, initPath, pageSlug, destroyed, ui,
                 aborted, modalPlatform, taskVars>>
  /\ NegLoadedStep

\* initialize(): fetchMangaData returned; setMangaData; createInstance resolves
PageSetMangaData(j) ==
  /\ pagePc[j] = "data"
  /\ titles' = TitlesOf(pageSlug[j])
  /\ pagePc' = [pagePc EXCEPT ![j] = "constructed"]
  /\ UNCHANGED <<negLoaded, fetchCall, storageCall, searchCall, remoteCalls, writers, site, now, events, storageVars, mappingsVars, url, routerVars,
                 initPc, initPath, pageSlug, destroyed, ui, aborted, modalPlatform,
                 taskVars>>

\* init(): "Navigation superseded, cleanup orphaned page"
InitOrphan(i) ==
  /\ initPc[i] = "create"
  /\ pagePc[i] = "constructed"
  /\ Superseded(i)
  /\ PageDestroy(i)
  /\ initPc' = [initPc EXCEPT ![i] = "done"]
  /\ UNCHANGED <<fetchCall, storageCall, searchCall, remoteCalls, writers, site, now, events, storageVars, url, routerVars,
                 initPath, pagePc, pageSlug, aborted, taskVars>>
  /\ NegLoadedStep

----------------------------------------------------------------------------
(* Metrics cache: src/utils/storage.ts, cache *)

\* the metrics a platform reports for a work
RemoteMetrics == [chapter |-> 2, lastChapterRead |-> 1]

CacheHas(all, targetPlatform, targetSlug) ==
  targetPlatform \in DOMAIN all /\ targetSlug \in DOMAIN all[targetPlatform]

\* cache.get returns the entry (and not null)
CacheGetHits(all, targetPlatform, targetSlug, t) ==
  /\ CacheHas(all, targetPlatform, targetSlug)
  /\ ~ExpiredAtGet(all[targetPlatform][targetSlug], t)

\* cache.set: { ...data, expires: Date.now() + ttl }
CacheSetTtl(all, targetPlatform, targetSlug, data, t, ttl) ==
  LET byPlatform == IF targetPlatform \in DOMAIN all THEN all[targetPlatform] ELSE EmptyObj
  IN Assign(all, targetPlatform,
            Assign(byPlatform, targetSlug,
                   [chapter |-> data.chapter, lastChapterRead |-> data.lastChapterRead,
                    expires |-> t + ttl]))

\* a cache.set whose entry expires at once
CacheSetNoTtl(all, targetPlatform, targetSlug, data, t) ==
  CacheSetTtl(all, targetPlatform, targetSlug, data, t, 0)

\* cache.set with "ttl: number = DEFAULT_TTL"
CacheSet(all, targetPlatform, targetSlug, data, t) ==
  CacheSetTtl(all, targetPlatform, targetSlug, data, t, DEFAULT_TTL)

\* cache.delete
CacheDelete(all, targetPlatform, targetSlug) ==
  IF ~CacheHas(all, targetPlatform, targetSlug) THEN all
  ELSE LET rest == Remove(all[targetPlatform], targetSlug)
       IN IF DOMAIN rest = {} THEN Remove(all, targetPlatform)
          ELSE Assign(all, targetPlatform, rest)

----------------------------------------------------------------------------
(* Session store: src/stores/mappings.ts *)

\* if (!currentPlatform || !currentSlug) return
HasContext(platform, slug) == platform # Null /\ slug \notin {Null, ""}

\* manualLinks[platform] ?? autoLinks[platform]
ExistingSlug(mLinks, aLinks, platform) ==
  IF platform \in DOMAIN mLinks THEN mLinks[platform]
  ELSE IF platform \in DOMAIN aLinks THEN aLinks[platform]
  ELSE Undef

\* getSlugWithSource
GetSlugWithSource(cPlatform, cSlug, mLinks, aLinks, platform) ==
  IF cPlatform = Null \/ cSlug = Null THEN [slug |-> Null, source |-> "none"]
  ELSE IF platform \in DOMAIN mLinks /\ IsString(mLinks[platform])
       THEN [slug |-> mLinks[platform], source |-> "manual"]
  ELSE IF platform \in DOMAIN aLinks
       THEN [slug |-> aLinks[platform], source |-> "auto"]
  ELSE [slug |-> Null, source |-> "none"]

----------------------------------------------------------------------------
(* Discovery tasks: MangaPage.loadPlatformData and the adapter's search *)

\* a task slot per page and target, and one per user click and target
TaskIds == (1..(MaxNav + MaxUser)) \X Targets

IdleTask ==
  [pc |-> "idle", page |-> NoPage, srcSlug |-> "", sTitles |-> <<>>, idx |-> 0,
   found |-> Null, wSlug |-> Null, snap |-> EmptyObj, cancelled |-> FALSE,
   abortedOnCall |-> FALSE,
   \* history: the search was started by a refresh over a negative result
   afterNeg |-> FALSE]

\* the slot of the handler of the next user click
ClickTask(tp) == <<MaxNav + clicks + 1, tp>>

\* loadPlatformData up to its first await; store is the snapshot taken on entry
LoadPlatformData(j, tp, cPlatform, cSlug, mLinks, aLinks, ttls, load) ==
  LET existingSlug == ExistingSlug(mLinks, aLinks, tp)
  IN IF aborted[j] THEN [task |-> IdleTask, load |-> load]
     ELSE IF IsString(existingSlug) THEN
       \* store.loadCachedResult(platformKey)
       [task |-> [IdleTask EXCEPT !.pc = "lcr1", !.page = j, !.found = existingSlug,
                                  !.wSlug = IF HasContext(cPlatform, cSlug) THEN cSlug ELSE Null],
        load |-> IF HasContext(cPlatform, cSlug) THEN load \cup {tp} ELSE load]
     ELSE IF existingSlug # Neg /\ Len(ttls) > 0 THEN
       \* store.setLoading(platformKey, true); api.search(...)
       [task |-> [IdleTask EXCEPT !.pc = "sTitle", !.page = j,
                                  !.srcSlug = IF cSlug = Null THEN "" ELSE cSlug,
                                  !.sTitles = ttls, !.idx = 1],
        load |-> load \cup {tp}]
     ELSE [task |-> IdleTask, load |-> load]

\* loadAllPlatformsData: loadPlatformData for every other platform
RECURSIVE LoadAll(_, _, _, _)
LoadAll(j, tps, tk, load) ==
  IF tps = {} THEN [tasks |-> tk, load |-> load]
  ELSE LET tp == CHOOSE x \in tps : TRUE
           r == LoadPlatformData(j, tp, currentPlatform, currentSlug, manualLinks,
                                 autoLinks, titles, load)
       IN LoadAll(j, tps \ {tp}, [tk EXCEPT ![<<j, tp>>] = r.task], r.load)

\* init(): the navigation is current after createInstance; the page becomes the
\* current page and render() is called.  The MangaLib page renders synchronously,
\* the other pages await the DOM first.
InitRender(i) ==
  /\ initPc[i] = "create"
  /\ pagePc[i] = "constructed"
  /\ ~Superseded(i)
  /\ currentPage' = i
  /\ initPc' = [initPc EXCEPT ![i] = "render"]
  /\ IF site = "mangalib"
     THEN /\ pagePc' = [pagePc EXCEPT ![i] = "rendered"]
          /\ ui' = ui \cup {i}
          /\ tasks' = LoadAll(i, Targets, tasks, loadingPlatforms).tasks
          /\ loadingPlatforms' = LoadAll(i, Targets, tasks, loadingPlatforms).load
     ELSE /\ pagePc' = [pagePc EXCEPT ![i] = "renderTab"]
          /\ UNCHANGED <<ui, tasks, loadingPlatforms>>
  /\ UNCHANGED <<negLoaded, fetchCall, storageCall, searchCall, remoteCalls, writers, site, now, events, storageVars, currentPlatform, currentSlug, linksFor, manualLinks,
                 autoLinks, loading, titles, url, navigationId, currentAbortController,
                 initPath, pageSlug, destroyed, aborted, modalPlatform, clicks>>

\* render() of a page that awaits the DOM: the chapters tab is there
PageRenderTab(j) ==
  /\ pagePc[j] = "renderTab"
  /\ pagePc' = [pagePc EXCEPT ![j] = "renderButton"]
  /\ UNCHANGED <<negLoaded, fetchCall, storageCall, searchCall, remoteCalls, writers, site, now, events, storageVars, mappingsVars, titles, url, routerVars,
                 initPc, initPath, pageSlug, destroyed, ui, aborted, modalPlatform,
                 taskVars>>

\* render(): the button container is mounted, then the modal, then
\* loadAllPlatformsData()
PageRenderButton(j) ==
  /\ pagePc[j] = "renderButton"
  /\ pagePc' = [pagePc EXCEPT ![j] = "rendered"]
  /\ ui' = ui \cup {j}
  /\ tasks' = LoadAll(j, Targets, tasks, loadingPlatforms).tasks
  /\ loadingPlatforms' = LoadAll(j, Targets, tasks, loadingPlatforms).load
  /\ UNCHANGED <<negLoaded, fetchCall, storageCall, searchCall, remoteCalls, writers, site, now, events, storageVars, currentPlatform, currentSlug, linksFor, manualLinks,
                 autoLinks, loading, titles, url, routerVars, initPc, initPath,
                 pageSlug, destroyed, aborted, modalPlatform, clicks>>

\* the slug a store action captures from get() on its call, Null if it returns at once
CapturedSlug == IF HasContext(currentPlatform, currentSlug) THEN currentSlug ELSE Null

\* the answers a target platform may give to a title search
RemoteMatches == {"x"}

\* search() returned null; loadPlatformData goes on with
\* store.saveAutoMapping(platformKey, false)
SearchReturnedNull(tk, byAbort) ==
  [IdleTask EXCEPT !.pc = "pSaveNeg", !.page = tk.page, !.srcSlug = tk.srcSlug,
                   !.afterNeg = tk.afterNeg,
                   !.found = Neg, !.wSlug = CapturedSlug, !.cancelled = byAbort]

\* search() returned a result; loadPlatformData goes on with
\* store.saveAutoMapping(platformKey, result.slug)
SearchReturnedResult(tk) ==
  [IdleTask EXCEPT !.pc = "pSavePos", !.page = tk.page, !.srcSlug = tk.srcSlug,
                   !.afterNeg = tk.afterNeg,
                   !.found = tk.found, !.wSlug = CapturedSlug]

\* search(): the loop goes to the next title, or leaves the loop
SearchNextTitle(tk) ==
  IF aborted[tk.page] THEN SearchReturnedNull(tk, TRUE)
  ELSE IF tk.idx < Len(tk.sTitles)
       THEN [tk EXCEPT !.idx = tk.idx + 1, !.pc = "sTitle", !.found = Null]
       ELSE [tk EXCEPT !.pc = "sSaveNeg", !.found = Neg]

\* the error thrown inside loadPlatformData's try reaches its catch, which calls
\* setLoading(platformKey, false); handleRefresh has no catch around getData
CaughtByLoadPlatformData(pc) == pc \in {"getData1", "getData2", "sCache"}

\* the step of a task: its new record; setLoading(platformKey, false) when search returned
TaskStep(k, new) ==
  /\ tasks' = [tasks EXCEPT ![k] = new]
  /\ loadingPlatforms' = IF tasks[k].pc \in {"sTitle", "sManga", "sSaveNeg", "sCache"}
                            /\ new.pc \in {"pSaveNeg", "pSavePos"}
                         THEN loadingPlatforms \ {k[2]} ELSE loadingPlatforms

\* search(): searchByTitle returned (m is the matching slug, or Null)
SearchTitle(k, m) ==
  /\ tasks[k].pc = "sTitle"
  /\ TaskStep(k, IF m = Null THEN SearchNextTitle(tasks[k])
                 ELSE IF aborted[tasks[k].page] THEN SearchReturnedNull(tasks[k], TRUE)
                 ELSE [tasks[k] EXCEPT !.pc = "sManga", !.found = m])
  /\ UNCHANGED <<negLoaded, fetchCall, storageCall, searchCall, remoteCalls, writers, site, now, events, storageVars, currentPlatform, currentSlug, linksFor, manualLinks,
                 autoLinks, loading, titles, url, routerVars, initPc, initPath,
                 pageVars, aborted, modalPlatform, clicks>>

\* search(): getMangaData returned (ok: data, else null); no look at the signal
\* before saveAutoMapping
SearchManga(k, ok) ==
  /\ tasks[k].pc = "sManga"
  /\ TaskStep(k, IF ok THEN [tasks[k] EXCEPT !.pc = "sSavePos",
                                             !.abortedOnCall = aborted[tasks[k].page]]
                 ELSE SearchNextTitle(tasks[k]))
  /\ UNCHANGED <<negLoaded, fetchCall, storageCall, searchCall, remoteCalls, writers, site, now, events, storageVars, currentPlatform, currentSlug, linksFor, manualLinks,
                 autoLinks, loading, titles, url, routerVars, initPc, initPath,
                 pageVars, aborted, modalPlatform, clicks>>

\* search(): this.saveAutoMapping(platform, slug, found slug) completed
SearchSavePos(k) ==
  /\ tasks[k].pc = "sSavePos"
  /\ auto' = AutoSet(auto, site, tasks[k].srcSlug, k[2], tasks[k].found, now)
  /\ TaskStep(k, [tasks[k] EXCEPT !.pc = "sCache"])
  /\ UNCHANGED <<fetchCall, storageCall, searchCall, remoteCalls, writers, site, now, events, manual, cache, currentPlatform, currentSlug, linksFor, manualLinks,
                 autoLinks, loading, titles, url, routerVars, initPc, initPath,
                 pageVars, aborted, modalPlatform, clicks>>
  /\ NegLoadedStep

\* search(): this.cacheResult completed and search returns the result; or its
\* cache.set rejected, search rejects and loadPlatformData's catch ends the task
SearchCache(k, ok) ==
  /\ tasks[k].pc = "sCache"
  /\ IF ok
     THEN /\ cache' = CacheSet(cache, k[2], tasks[k].found, RemoteMetrics, now)
          /\ TaskStep(k, SearchReturnedResult(tasks[k]))
     ELSE /\ UNCHANGED cache
          /\ tasks' = [tasks EXCEPT ![k] = IdleTask]
          /\ loadingPlatforms' = IF CaughtByLoadPlatformData(tasks[k].pc)
                                 THEN loadingPlatforms \ {k[2]} ELSE loadingPlatforms
  /\ UNCHANGED <<negLoaded, fetchCall, storageCall, searchCall, remoteCalls, writers, site, now, events, manual, auto, currentPlatform, currentSlug, linksFor, manualLinks,
                 autoLinks, loading, titles, url, routerVars, initPc, initPath,
                 pageVars, aborted, modalPlatform, clicks>>

\* search(): this.saveAutoMapping(platform, slug, false) completed; search returns null
SearchSaveNeg(k) ==
  /\ tasks[k].pc = "sSaveNeg"
  /\ auto' = AutoSet(auto, site, tasks[k].srcSlug, k[2], Neg, now)
  /\ TaskStep(k, SearchReturnedNull(tasks[k], FALSE))
  /\ UNCHANGED <<fetchCall, storageCall, searchCall, remoteCalls, writers, site, now, events, manual, cache, currentPlatform, currentSlug, linksFor, manualLinks,
                 autoLinks, loading, titles, url, routerVars, initPc, initPath,
                 pageVars, aborted, modalPlatform, clicks>>
  /\ NegLoadedStep

\* store.loadCachedResult(platformKey) is called
LoadCachedResultCall(tk, pc) ==
  [IdleTask EXCEPT !.pc = pc, !.page = tk.page, !.found = tk.found, !.wSlug = CapturedSlug]

\* api.getData(slug) is called
GetDataCall(tk, pc) ==
  [IdleTask EXCEPT !.pc = pc, !.page = tk.page, !.found = tk.found]

\* loadPlatformData: store.saveAutoMapping completed (storage write, then set())
PageSaveAuto(k) ==
  /\ tasks[k].pc \in {"pSavePos", "pSaveNeg"}
  /\ IF tasks[k].wSlug # Null
     THEN /\ auto' = AutoSet(auto, site, tasks[k].wSlug, k[2], tasks[k].found, now)
          /\ autoLinks' = Assign(autoLinks, k[2], tasks[k].found)
     ELSE UNCHANGED <<auto, autoLinks>>
  /\ LET new == IF tasks[k].pc = "pSaveNeg" THEN IdleTask
                ELSE IF site = "mangalib" THEN LoadCachedResultCall(tasks[k], "lcr2")
                ELSE GetDataCall(tasks[k], "getData2")
     IN /\ tasks' = [tasks EXCEPT ![k] = new]
        /\ loadingPlatforms' = IF new.pc = "lcr2" /\ new.wSlug # Null
                               THEN loadingPlatforms \cup {k[2]} ELSE loadingPlatforms
  /\ UNCHANGED <<fetchCall, storageCall, searchCall, remoteCalls, writers, site, now, events, manual, cache, currentPlatform, currentSlug, linksFor, manualLinks,
                 loading, titles, url, routerVars, initPc, initPath,
                 pageVars, aborted, modalPlatform, clicks>>
  /\ NegLoadedStep

\* a handler calls loadPlatformData as its last step
ThenLoadPlatformData(k, cPlatform, cSlug, mLinks, aLinks, load) ==
  LET r == LoadPlatformData(tasks[k].page, k[2], cPlatform, cSlug, mLinks, aLinks,
                            titles, load)
  IN /\ tasks' = [tasks EXCEPT ![k] =
                     [r.task EXCEPT !.afterNeg = tasks[k].pc = "rDelAuto" /\ r.task.pc = "sTitle"]]
     /\ loadingPlatforms' = r.load

\* store.loadCachedResult completed: getTargetSlug, cache.get, and the finally block
LoadCachedResult(k) ==
  /\ tasks[k].pc \in {"lcr1", "lcr2"}
  /\ LET w == tasks[k].wSlug
         target == IF w = Null THEN Null
                   ELSE GetTargetSlug(manual, auto, site, w, k[2], now).slug
         cached == IsString(target) /\ CacheGetHits(cache, k[2], target, now)
         new == IF tasks[k].pc = "lcr1" /\ ~cached
                THEN GetDataCall(tasks[k], "getData1") ELSE IdleTask
     IN /\ tasks' = [tasks EXCEPT ![k] = new]
        /\ loadingPlatforms' = IF w = Null THEN loadingPlatforms
                               ELSE loadingPlatforms \ {k[2]}
  /\ UNCHANGED <<negLoaded, fetchCall, storageCall, searchCall, remoteCalls, writers, site, now, events, storageVars, currentPlatform, currentSlug, linksFor, manualLinks,
                 autoLinks, loading, titles, url, routerVars, initPc, initPath,
                 pageVars, aborted, modalPlatform, clicks>>

\* how a call of api.getData ends: with the metrics, with null, or rejected by a
\* storage call inside it (getCached's read, cacheResult's write)
GetDataOutcomes == {"data", "null", "throws"}

\* api.getData(slug) completed: the cached metrics, else those fetched and cached;
\* or it threw
GetData(k, outcome) ==
  /\ tasks[k].pc \in {"getData1", "getData2", "rGetData"}
  /\ LET ok == outcome = "data"
         hit == CacheGetHits(cache, k[2], tasks[k].found, now)
         result == hit \/ ok
         new == IF outcome = "throws" THEN IdleTask
                ELSE IF tasks[k].pc = "getData1" /\ ~result THEN IdleTask
                ELSE LoadCachedResultCall(tasks[k], "lcr2")
         load == IF outcome = "throws"
                 THEN IF CaughtByLoadPlatformData(tasks[k].pc)
                      THEN loadingPlatforms \ {k[2]} ELSE loadingPlatforms
                 ELSE IF tasks[k].pc = "rGetData" THEN loadingPlatforms \ {k[2]}
                 ELSE loadingPlatforms
     IN /\ cache' = IF ~hit /\ ok
                    THEN CacheSet(cache, k[2], tasks[k].found, RemoteMetrics, now)
                    ELSE cache
        /\ tasks' = [tasks EXCEPT ![k] = new]
        /\ loadingPlatforms' = IF new.pc = "lcr2" /\ new.wSlug # Null
                               THEN load \cup {k[2]} ELSE load
  /\ UNCHANGED <<negLoaded, fetchCall, storageCall, searchCall, remoteCalls, writers, site, now, events, manual, auto, currentPlatform, currentSlug, linksFor, manualLinks,
                 autoLinks, loading, titles, url, routerVars, initPc, initPath,
                 pageVars, aborted, modalPlatform, clicks>>

----------------------------------------------------------------------------
(* The user: PlatformDropdown and EditModal, and the pages' handlers *)

\* the dropdown of page j shows an enabled button for the platform
CanClick(j, tp) ==
  /\ clicks < MaxUser
  /\ j \in ui
  /\ currentPlatform # Null
  /\ tp \notin loadingPlatforms

\* handleRefresh up to its first await
HandleRefresh(j, tp) ==
  /\ events < MaxEvents
  /\ events' = events + 1
  /\ CanClick(j, tp)
  /\ clicks' = clicks + 1
  /\ LET targetSlug == ExistingSlug(manualLinks, autoLinks, tp)
         k == ClickTask(tp)
         me == [IdleTask EXCEPT !.page = j]
     IN IF IsString(targetSlug)
        THEN /\ tasks' = [tasks EXCEPT ![k] = [me EXCEPT !.pc = "rInval", !.found = targetSlug]]
             /\ UNCHANGED loadingPlatforms
        ELSE IF tp \in DOMAIN autoLinks /\ autoLinks[tp] = Neg
        THEN /\ tasks' = [tasks EXCEPT ![k] = [me EXCEPT !.pc = "rDelAuto",
                                 !.wSlug = CapturedSlug, !.snap = autoLinks]]
             /\ UNCHANGED loadingPlatforms
        ELSE LET r == LoadPlatformData(j, tp, currentPlatform, currentSlug, manualLinks,
                                       autoLinks, titles, loadingPlatforms)
             IN /\ tasks' = [tasks EXCEPT ![k] = r.task]
                /\ loadingPlatforms' = r.load
  /\ UNCHANGED <<negLoaded, fetchCall, storageCall, searchCall, remoteCalls, writers, site, now, storageVars, currentPlatform, currentSlug, linksFor, manualLinks,
                 autoLinks, loading, titles, url, routerVars, initPc, initPath,
                 pageVars, aborted, modalPlatform>>

\* store.invalidateCache completed
InvalidateCache(k) ==
  /\ tasks[k].pc \in {"rInval", "sInval", "dInval"}
  /\ cache' = CacheDelete(cache, k[2], tasks[k].found)
  /\ IF tasks[k].pc = "rInval"
     THEN \* store.setLoading(platformKey, true); api.getData(targetSlug)
          /\ tasks' = [tasks EXCEPT ![k] = GetDataCall(tasks[k], "rGetData")]
          /\ loadingPlatforms' = loadingPlatforms \cup {k[2]}
     ELSE ThenLoadPlatformData(k, currentPlatform, currentSlug, manualLinks, autoLinks,
                               loadingPlatforms)
  /\ UNCHANGED <<negLoaded, fetchCall, storageCall, searchCall, remoteCalls, writers, site, now, events, manual, auto, currentPlatform, currentSlug, linksFor, manualLinks,
                 autoLinks, loading, titles, url, routerVars, initPc, initPath,
                 pageVars, aborted, modalPlatform, clicks>>

\* store.deleteAutoMapping completed: storage delete, then set({autoLinks: updated})
\* with updated made from the links captured on the call
DeleteAutoMapping(k) ==
  /\ tasks[k].pc \in {"rDelAuto", "dDelAuto"}
  /\ LET w == tasks[k].wSlug
         links == IF w = Null THEN autoLinks ELSE Remove(tasks[k].snap, k[2])
     IN /\ auto' = IF w = Null THEN auto ELSE Delete3(auto, site, w, k[2])
        /\ autoLinks' = links
        /\ IF tasks[k].pc = "dDelAuto" /\ IsString(tasks[k].found)
           THEN /\ tasks' = [tasks EXCEPT ![k] =
                      [IdleTask EXCEPT !.pc = "dInval", !.page = tasks[k].page,
                                       !.found = tasks[k].found]]
                /\ UNCHANGED loadingPlatforms
           ELSE ThenLoadPlatformData(k, currentPlatform, currentSlug, manualLinks, links,
                                     loadingPlatforms)
  /\ UNCHANGED <<fetchCall, storageCall, searchCall, remoteCalls, writers, site, now, events, manual, cache, currentPlatform, currentSlug, linksFor, manualLinks,
                 loading, titles, url, routerVars, initPc, initPath,
                 pageVars, aborted, modalPlatform, clicks>>
  /\ NegLoadedStep

\* the slugs a user enters in the edit modal
UserSlugs == {"y"}

\* PlatformItem: the edit button opens the modal
OpenEditModal(j, tp) ==
  /\ CanClick(j, tp)
  /\ modalPlatform = Null
  /\ modalPlatform' = tp
  /\ UNCHANGED <<negLoaded, fetchCall, storageCall, searchCall, remoteCalls, writers, site, now, storageVars, mappingsVars, titles, url, routerVars,
                 initPc, initPath, pageVars, aborted, taskVars>>

OpenModal(j, tp) ==
  /\ events < MaxEvents
  /\ events' = events + 1
  /\ OpenEditModal(j, tp)

\* EditModal: closed without a change (overlay, or clean without a saved slug)
CloseModal ==
  /\ modalPlatform # Null
  /\ modalPlatform' = Null
  /\ UNCHANGED <<negLoaded, fetchCall, storageCall, searchCall, remoteCalls, writers, site, now, events, storageVars, mappingsVars, titles, url, routerVars,
                 initPc, initPath, pageVars, aborted, taskVars>>

\* EditModal handleSubmit: handleSaveLink up to its first await
\* (store.saveManualLink is called), and closeModal()
HandleSaveLink(j, tp, slug) ==
  /\ clicks < MaxUser
  /\ j \in ui
  /\ modalPlatform = tp
  /\ modalPlatform' = Null
  /\ clicks' = clicks + 1
  /\ tasks' = [tasks EXCEPT ![ClickTask(tp)] =
                 [IdleTask EXCEPT !.pc = "mSave", !.page = j, !.found = slug,
                                  !.wSlug = CapturedSlug]]
  /\ UNCHANGED <<negLoaded, fetchCall, storageCall, searchCall, remoteCalls, writers, site, now, events, storageVars, mappingsVars, titles, url, routerVars,
                 initPc, initPath, pageVars, aborted>>

\* store.saveManualLink completed: storage write, then set(); handleSaveLink goes
\* on with store.invalidateCache
SaveManualLink(k) ==
  /\ tasks[k].pc = "mSave"
  /\ IF tasks[k].wSlug # Null
     THEN /\ manual' = Put3(manual, site, tasks[k].wSlug, k[2], tasks[k].found)
          /\ manualLinks' = Assign(manualLinks, k[2], tasks[k].found)
     ELSE UNCHANGED <<manual, manualLinks>>
  /\ tasks' = [tasks EXCEPT ![k] = [IdleTask EXCEPT !.pc = "sInval",
                                      !.page = tasks[k].page, !.found = tasks[k].found]]
  /\ UNCHANGED <<negLoaded, fetchCall, storageCall, searchCall, remoteCalls, writers, site, now, events, auto, cache, currentPlatform, currentSlug, linksFor, autoLinks,
                 loading, loadingPlatforms, titles, url, routerVars, initPc, initPath,
                 pageVars, aborted, modalPlatform, clicks>>

\* EditModal handleCleanClick with a saved slug: handleDeleteLink up to its first
\* await (store.deleteManualLink is called), and closeModal()
HandleDeleteLink(j, tp) ==
  /\ clicks < MaxUser
  /\ j \in ui
  /\ modalPlatform = tp
  /\ IsString(ExistingSlug(manualLinks, autoLinks, tp))
  /\ modalPlatform' = Null
  /\ clicks' = clicks + 1
  /\ tasks' = [tasks EXCEPT ![ClickTask(tp)] =
                 [IdleTask EXCEPT !.pc = "dDelManual", !.page = j,
                                  !.found = ExistingSlug(manualLinks, autoLinks, tp),
                                  !.wSlug = CapturedSlug, !.snap = manualLinks]]
  /\ UNCHANGED <<negLoaded, fetchCall, storageCall, searchCall, remoteCalls, writers, site, now, events, storageVars, mappingsVars, titles, url, routerVars,
                 initPc, initPath, pageVars, aborted>>

\* store.deleteManualLink completed: storage delete, then set({manualLinks: updated});
\* handleDeleteLink goes on with store.deleteAutoMapping
DeleteManualLink(k) ==
  /\ tasks[k].pc = "dDelManual"
  /\ IF tasks[k].wSlug # Null
     THEN /\ manual' = Delete3(manual, site, tasks[k].wSlug, k[2])
          /\ manualLinks' = Remove(tasks[k].snap, k[2])
     ELSE UNCHANGED <<manual, manualLinks>>
  /\ tasks' = [tasks EXCEPT ![k] = [IdleTask EXCEPT !.pc = "dDelAuto",
                                      !.page = tasks[k].page, !.found = tasks[k].found,
                                      !.wSlug = CapturedSlug, !.snap = autoLinks]]
  /\ UNCHANGED <<negLoaded, fetchCall, storageCall, searchCall, remoteCalls, writers, site, now, events, auto, cache, currentPlatform, currentSlug, linksFor, autoLinks,
                 loading, loadingPlatforms, titles, url, routerVars, initPc, initPath,
                 pageVars, aborted, modalPlatform, clicks>>

----------------------------------------------------------------------------
(* Time, and the background sweep: entrypoints/background.ts *)

Tick ==
  /\ events < MaxEvents
  /\ events' = events + 1
  /\ now < MaxTime
  /\ now' = now + 1
  /\ UNCHANGED <<negLoaded, fetchCall, storageCall, searchCall, remoteCalls, writers, site, storageVars, mappingsVars, titles, url, routerVars,
                 initPc, initPath, pageVars, aborted, modalPlatform, taskVars>>

\* cache.flushExpired
CacheFlushExpired(all, t) ==
  LET keep(tp) == {sl \in DOMAIN all[tp] : ~ExpiredAtFlush(all[tp][sl], t)}
      kept == {tp \in DOMAIN all : keep(tp) # {}}
  IN [tp \in kept |-> [sl \in keep(tp) |-> all[tp][sl]]]

\* flushExpired of the background script
FlushExpired ==
  /\ auto' = AutoFlushExpired(auto, now).all
  /\ cache' = CacheFlushExpired(cache, now)
  /\ <<auto', cache'>> # <<auto, cache>>
  /\ UNCHANGED <<fetchCall, storageCall, searchCall, remoteCalls, writers, site, now, events, manual, mappingsVars, titles, url, routerVars,
                 initPc, initPath, pageVars, aborted, modalPlatform, taskVars>>
  /\ NegLoadedStep

----------------------------------------------------------------------------
(* The specification *)

vars == <<site, now, manual, auto, cache, currentPlatform, currentSlug, manualLinks,
          autoLinks, loading, loadingPlatforms, titles, url, navigationId, currentPage,
          currentAbortController, initPc, initPath, pagePc, pageSlug, destroyed,
          aborted, ui, modalPlatform, tasks, clicks, events, linksFor, negLoaded,
          fetchCall, storageCall, searchCall, remoteCalls, writers>>

InitPage ==
  /\ site \in Sites
  /\ url \in {"a", "other"}
  /\ now = 0
  /\ manual = EmptyObj /\ auto = EmptyObj /\ cache = EmptyObj
  /\ currentPlatform = Null /\ currentSlug = Null
  /\ manualLinks = EmptyObj /\ autoLinks = EmptyObj
  /\ loading = FALSE /\ loadingPlatforms = {}
  /\ titles = <<>>
  /\ navigationId = 0 /\ currentPage = NoPage /\ currentAbortController = NoPage
  /\ initPc = [i \in Navs |-> "none"]
  /\ initPath = [i \in Navs |-> ""]
  /\ pagePc = [i \in Navs |-> "none"]
  /\ pageSlug = [i \in Navs |-> ""]
  /\ destroyed = [i \in Navs |-> FALSE]
  /\ aborted = [i \in Navs |-> FALSE]
  /\ ui = {}
  /\ modalPlatform = Null
  /\ tasks = [k \in TaskIds |-> IdleTask]
  /\ clicks = 0
  /\ events = 0
  /\ linksFor = Null
  /\ negLoaded = {}
  /\ fetchCall = IdleFetch
  /\ storageCall = NoCall
  /\ writers = [w \in Writers |-> IdleWriter]
  /\ remoteCalls = NoCalls

Init == InitPage /\ searchCall = NoSearch

Next ==
  \/ Main
  \/ \E u \in Urls : LocationChange(u)
  \/ \E i \in Navs :
       \/ InitSuperseded(i)
       \/ InitDestroyPrevious(i)
       \/ InitCreatePage(i)
       \/ InitNoRoute(i)
       \/ InitOrphan(i)
       \/ InitRender(i)
       \/ PageSetContext(i)
       \/ PageContextLoaded(i)
       \/ PageSetMangaData(i)
       \/ PageRenderTab(i)
       \/ PageRenderButton(i)
  \/ \E k \in TaskIds :
       \/ \E m \in RemoteMatches \cup {Null} : SearchTitle(k, m)
       \/ \E ok \in BOOLEAN : SearchManga(k, ok)
       \/ SearchSavePos(k)
       \/ \E ok \in BOOLEAN : SearchCache(k, ok)
       \/ SearchSaveNeg(k)
       \/ PageSaveAuto(k)
       \/ LoadCachedResult(k)
       \/ \E outcome \in GetDataOutcomes : GetData(k, outcome)
       \/ InvalidateCache(k)
       \/ DeleteAutoMapping(k)
       \/ SaveManualLink(k)
       \/ DeleteManualLink(k)
  \/ \E j \in Navs, tp \in Targets :
       \/ HandleRefresh(j, tp)
       \/ OpenModal(j, tp)
       \/ \E slug \in UserSlugs : HandleSaveLink(j, tp, slug)
       \/ HandleDeleteLink(j, tp)
  \/ CloseModal
  \/ Tick
  \/ FlushExpired

Spec == Init /\ [][Next]_vars

\* the router and the pages alone: the init() calls and the pages' initialize,
\* render and destroy, with the discovery they start left pending
NextRouter ==
  \/ Main
  \/ \E u \in Urls : LocationChange(u)
  \/ \E i \in Navs :
       \/ InitSuperseded(i)
       \/ InitDestroyPrevious(i)
       \/ InitCreatePage(i)
       \/ InitNoRoute(i)
       \/ InitOrphan(i)
       \/ InitRender(i)
       \/ PageSetContext(i)
       \/ PageContextLoaded(i)
       \/ PageSetMangaData(i)
       \/ PageRenderTab(i)
       \/ PageRenderButton(i)

SpecRouter == Init /\ [][NextRouter]_vars

\* The router, the page and the edit modal alone: the user links a title
\* while navigations go on; opening the modal is outside the event budget
OpenModalLink(j, tp) ==
  /\ OpenEditModal(j, tp)
  /\ UNCHANGED events

NextLink ==
  \/ NextRouter
  \/ \E j \in Navs, tp \in Targets :
       \/ OpenModalLink(j, tp)
       \/ \E slug \in UserSlugs : HandleSaveLink(j, tp, slug)
  \/ \E k \in TaskIds :
       \/ SaveManualLink(k)
       \/ InvalidateCache(k)
       \/ LoadCachedResult(k)
       \/ \E outcome \in GetDataOutcomes : GetData(k, outcome)

SpecLink == Init /\ [][NextLink]_vars

----------------------------------------------------------------------------
(* The stores alone: every operation of useMappingsStore and of the adapter's *)
(* saveAutoMapping run to completion, from any context, at any time          *)

pageSideVars == <<fetchCall, searchCall, remoteCalls, writers, site, url, titles, cache, loading, loadingPlatforms, routerVars,
                  initPc, initPath, pageVars, aborted, modalPlatform, taskVars>>

\* the call of an action of the session store in the current context; repeated:
\* the call before it was the same action with the same arguments and context
StoreCall(op, args) ==
  LET ctx == <<currentPlatform, currentSlug>>
  IN [NoCall EXCEPT !.op = op, !.args = args, !.ctx = ctx, !.outcome = "resolved",
                    !.repeated = (storageCall.op = op /\ storageCall.args = args
                                  /\ storageCall.ctx = ctx)]

\* setContext, run to completion
StoreSetContext(slug) ==
  /\ currentPlatform' = site
  /\ currentSlug' = slug
  /\ manualLinks' = ManualGetAllForSlug(manual, site, slug)
  /\ autoLinks' = AutoGetAllForSlug(auto, site, slug, now)
  /\ linksFor' = slug
  /\ storageCall' = NoCall
  /\ UNCHANGED <<now, events, manual, auto, pageSideVars>>
  /\ NegLoadedStep

\* a saveManualLink that removes the link it finds; C17 rules it out
StoreToggleManualLink(tp, targetSlug) ==
  /\ HasContext(currentPlatform, currentSlug)
  /\ LET linked == ManualGet(manual, currentPlatform, currentSlug, tp) = targetSlug
     IN /\ manual' = IF linked THEN Delete3(manual, currentPlatform, currentSlug, tp)
                     ELSE Put3(manual, currentPlatform, currentSlug, tp, targetSlug)
        /\ manualLinks' = IF linked THEN Remove(manualLinks, tp)
                          ELSE Assign(manualLinks, tp, targetSlug)
  /\ storageCall' = StoreCall("saveManualLink", <<tp, targetSlug>>)
  /\ UNCHANGED <<negLoaded, now, events, auto, currentPlatform, currentSlug, linksFor, autoLinks, pageSideVars>>

\* saveManualLink, run to completion
StoreSaveManualLink(tp, targetSlug) ==
  /\ HasContext(currentPlatform, currentSlug)
  /\ manual' = Put3(manual, currentPlatform, currentSlug, tp, targetSlug)
  /\ manualLinks' = Assign(manualLinks, tp, targetSlug)
  /\ storageCall' = StoreCall("saveManualLink", <<tp, targetSlug>>)
  /\ UNCHANGED <<negLoaded, now, events, auto, currentPlatform, currentSlug, linksFor, autoLinks, pageSideVars>>

\* deleteManualLink, run to completion
StoreDeleteManualLink(tp) ==
  /\ HasContext(currentPlatform, currentSlug)
  /\ manual' = Delete3(manual, currentPlatform, currentSlug, tp)
  /\ manualLinks' = Remove(manualLinks, tp)
  /\ storageCall' = NoCall
  /\ UNCHANGED <<negLoaded, now, events, auto, currentPlatform, currentSlug, linksFor, autoLinks, pageSideVars>>

\* saveAutoMapping of the session store, run to completion
StoreSaveAutoMapping(tp, targetSlug) ==
  /\ HasContext(currentPlatform, currentSlug)
  /\ auto' = AutoSet(auto, currentPlatform, currentSlug, tp, targetSlug, now)
  /\ autoLinks' = Assign(autoLinks, tp, targetSlug)
  /\ storageCall' = NoCall
  /\ UNCHANGED <<now, events, manual, currentPlatform, currentSlug, linksFor, manualLinks, pageSideVars>>
  /\ NegLoadedStep

\* deleteAutoMapping, run to completion
StoreDeleteAutoMapping(tp) ==
  /\ HasContext(currentPlatform, currentSlug)
  /\ auto' = Delete3(auto, currentPlatform, currentSlug, tp)
  /\ autoLinks' = Remove(autoLinks, tp)
  /\ storageCall' = NoCall
  /\ UNCHANGED <<now, events, manual, currentPlatform, currentSlug, linksFor, manualLinks, pageSideVars>>
  /\ NegLoadedStep

\* saveAutoMapping of the adapter: autoMappings.set for any source work
AdapterSaveAutoMapping(sourceSlug, tp, targetSlug) ==
  /\ auto' = AutoSet(auto, site, sourceSlug, tp, targetSlug, now)
  /\ storageCall' = NoCall
  /\ UNCHANGED <<now, events, manual, currentPlatform, currentSlug, linksFor, manualLinks,
                 autoLinks, pageSideVars>>
  /\ NegLoadedStep

NextStore ==
  \/ \E slug \in WorkSlugs : StoreSetContext(slug)
  \/ \E tp \in Targets, targetSlug \in TargetSlugs : StoreSaveManualLink(tp, targetSlug)
  \/ \E tp \in Targets : StoreDeleteManualLink(tp)
  \/ \E tp \in Targets, targetSlug \in TargetSlugs \cup {Neg} :
       StoreSaveAutoMapping(tp, targetSlug)
  \/ \E tp \in Targets : StoreDeleteAutoMapping(tp)
  \/ \E sourceSlug \in WorkSlugs, tp \in Targets, targetSlug \in TargetSlugs \cup {Neg} :
       AdapterSaveAutoMapping(sourceSlug, tp, targetSlug)
  \/ Tick
  \/ FlushExpired

SpecStore == Init /\ [][NextStore]_vars

-----------------------------------------------------------------------------
(* The persistent store alone: get and set of the three partitions, called  *)
(* at any time, with a backing storage whose read or write may fail          *)

\* how the backing storage behaves during a call: storage.getItem rejects,
\* storage.setItem rejects, or both succeed
IOs == {"ok", "readFails", "writeFails"}

\* the ttl arguments of set
Ttls == {0, DEFAULT_TTL}

\* the work the calls are made for, and the slug it is mapped to
StoredSlugs == {"a"}
CachedSlugs == {"x"}

\* MangaBuffAPI.getMangaData: the chapter count parsed from the page (0 without
\* a match) and the reader's progress read from the extension storage
GetMangaData(parsedChapter, progress) ==
  [chapter |-> parsedChapter, lastChapterRead |-> progress]

\* the pairs an adapter passes to cacheResult: the progress below the chapter
\* count, and above it
MetricsPairs == {GetMangaData(2, 1), GetMangaData(1, 2)}

notStorageVars == <<site, url, titles, events, mappingsVars, routerVars, initPc, initPath,
                    pageVars, aborted, modalPlatform, taskVars, negLoaded, fetchCall,
                    searchCall, remoteCalls, writers>>

\* the record of a call of the persistent store; afterSet: the call before it
\* was a set of the same partition and key, and it resolved
StorageCall(op, args, io, outcome, value, ttl) ==
  [NoCall EXCEPT !.op = op, !.args = args, !.io = io, !.outcome = outcome,
                 !.value = value, !.at = now, !.ttl = ttl,
                 !.afterSet = (/\ <<storageCall.op, op>> \in
                                    {<<"manualSet", "manualGet">>, <<"autoSet", "autoGet">>,
                                     <<"cacheSet", "cacheGet">>}
                               /\ storageCall.args = args
                               /\ storageCall.outcome = "resolved")]

\* a get whose getAll resolved: null or the value
GetOutcome(found) == IF found THEN "value" ELSE "null"

\* a set that swallows the error of the backing storage; C19 rules it out
SetSwallows(io) == "resolved"

\* set: "catch (error) { Logger.error(...); throw error; }"
SetOutcome(io) == IF io = "ok" THEN "resolved" ELSE "rejected"

\* manualMappings.get: getAll's getItem rejects, or the value is looked up
ManualGetCall(slug, tp, io) ==
  /\ io \in {"ok", "readFails"}
  /\ LET v == ManualGet(manual, site, slug, tp)
     IN storageCall' =
          IF io = "readFails"
          THEN StorageCall("manualGet", <<slug, tp>>, io, "rejected", [slug |-> Null], 0)
          ELSE StorageCall("manualGet", <<slug, tp>>, io, GetOutcome(v # Null), [slug |-> v], 0)
  /\ UNCHANGED <<now, storageVars, notStorageVars>>

\* autoMappings.get
AutoGetCall(slug, tp, io) ==
  /\ io \in {"ok", "readFails"}
  /\ LET v == AutoGet(auto, site, slug, tp, now)
     IN storageCall' =
          IF io = "readFails"
          THEN StorageCall("autoGet", <<slug, tp>>, io, "rejected", [slug |-> Null], 0)
          ELSE StorageCall("autoGet", <<slug, tp>>, io, GetOutcome(v # Null), [slug |-> v], 0)
  /\ UNCHANGED <<now, storageVars, notStorageVars>>

\* cache.get
CacheGetCall(tp, targetSlug, io) ==
  /\ io \in {"ok", "readFails"}
  /\ storageCall' =
       IF io = "readFails"
       THEN StorageCall("cacheGet", <<tp, targetSlug>>, io, "rejected", [slug |-> Null], 0)
       ELSE IF CacheGetHits(cache, tp, targetSlug, now)
       THEN StorageCall("cacheGet", <<tp, targetSlug>>, io, "value", cache[tp][targetSlug], 0)
       ELSE StorageCall("cacheGet", <<tp, targetSlug>>, io, "null", [slug |-> Null], 0)
  /\ UNCHANGED <<now, storageVars, notStorageVars>>

\* manualMappings.set
ManualSetCall(slug, tp, targetSlug, io) ==
  /\ manual' = IF io = "ok" THEN Put3(manual, site, slug, tp, targetSlug) ELSE manual
  /\ storageCall' = StorageCall("manualSet", <<slug, tp>>, io, SetOutcome(io),
                                [slug |-> targetSlug], 0)
  /\ UNCHANGED <<now, auto, cache, notStorageVars>>

\* autoMappings.set
AutoSetCall(slug, tp, targetSlug, ttl, io) ==
  /\ auto' = IF io = "ok" THEN AutoSetTtl(auto, site, slug, tp, targetSlug, now, ttl)
             ELSE auto
  /\ storageCall' = StorageCall("autoSet", <<slug, tp>>, io, SetOutcome(io),
                                [slug |-> targetSlug], ttl)
  /\ UNCHANGED <<now, manual, cache, notStorageVars>>

\* BasePlatformAPI.cacheResult: cache.set(this.config.key, slug, { chapter, lastChapterRead })
CacheSetCall(tp, targetSlug, data, ttl, io) ==
  /\ cache' = IF io = "ok" THEN CacheSetTtl(cache, tp, targetSlug, data, now, ttl)
              ELSE cache
  /\ storageCall' = StorageCall("cacheSet", <<tp, targetSlug>>, io, SetOutcome(io), data, ttl)
  /\ UNCHANGED <<now, manual, auto, notStorageVars>>

NextStorage ==
  \/ \E slug \in StoredSlugs, tp \in Targets, io \in IOs :
       \/ ManualGetCall(slug, tp, io)
       \/ AutoGetCall(slug, tp, io)
       \/ \E targetSlug \in CachedSlugs : ManualSetCall(slug, tp, targetSlug, io)
       \/ \E targetSlug \in CachedSlugs \cup {Neg}, ttl \in Ttls :
            AutoSetCall(slug, tp, targetSlug, ttl, io)
  \/ \E tp \in Targets, targetSlug \in CachedSlugs, io \in IOs :
       \/ CacheGetCall(tp, targetSlug, io)
       \/ \E data \in MetricsPairs, ttl \in Ttls : CacheSetCall(tp, targetSlug, data, ttl, io)
  \/ Tick
  \/ FlushExpired

\* the calls are made on one platform
InitStorage == Init /\ site = "mangalib" /\ url = "a"

SpecStorage == InitStorage /\ [][NextStorage]_vars

----------------------------------------------------------------------------
(* C1 *)

\* Manual holds a string for the work and the target
ManualHolds(slug, tp) ==
  Has3(manual, site, slug, tp) /\ IsString(manual[site][slug][tp])

\* C1: if Manual holds a string for (platform, slug, target), getTargetSlug on the
\* storage returns that string with source 'manual', and so does getSlugWithSource
\* on the session state that holds the string for its context, whatever the Auto
\* entry for the same key is (another slug, false, fresh or expired).
C1_ManualWins ==
  \A slug \in WorkSlugs, tp \in Targets :
    /\ ManualHolds(slug, tp) =>
         GetTargetSlug(manual, auto, site, slug, tp, now)
           = [slug |-> manual[site][slug][tp], source |-> "manual"]
    /\ (HasContext(currentPlatform, currentSlug) /\ tp \in DOMAIN manualLinks
        /\ IsString(manualLinks[tp])) =>
         GetSlugWithSource(currentPlatform, currentSlug, manualLinks, autoLinks, tp)
           = [slug |-> manualLinks[tp], source |-> "manual"]

\* a Manual string stands against an expired Auto entry of another value, in the
\* storage and in the session state of the work
C1_Witness ==
  \E slug \in WorkSlugs, tp \in Targets :
    /\ ManualHolds(slug, tp)
    /\ Has3(auto, site, slug, tp)
    /\ auto[site][slug][tp].value # manual[site][slug][tp]
    /\ now > auto[site][slug][tp].expires
    /\ currentSlug = slug /\ tp \in DOMAIN manualLinks /\ tp \in DOMAIN autoLinks

----------------------------------------------------------------------------
(* BasePlatformAPI.fetch: retry with exponential backoff *)

MAX_BACKOFF == 10000

\* what an attempt's bgFetch may end with: a payload, null, the timeout's
\* AbortError, another exception
Outcomes == {"data", "null", "AbortError", "Error"}

\* the maxRetries arguments
RetryArgs == 0..MaxRetriesArg

\* a loop that runs once more than maxRetries, the excess C10 rules out
LoopRunsOnceMore(attempt, maxRetries) == attempt <= maxRetries

\* for (let attempt = 0; attempt < maxRetries; attempt++)
LoopContinues(attempt, maxRetries) == attempt < maxRetries

\* a backoff, and one more attempt, also after the last attempt
BackoffAfterLast(attempt, maxRetries) == attempt < maxRetries

\* if (attempt < maxRetries - 1): there is a backoff before the next attempt
BackoffBefore(attempt, maxRetries) == attempt < maxRetries - 1

\* a backoff that doubles without the cap
BackoffUncapped(attempt) == 1000 * (2 ^ attempt)

\* Math.min(1000 * Math.pow(2, attempt), MAX_BACKOFF)
Backoff(attempt) ==
  IF 1000 * (2 ^ attempt) < MAX_BACKOFF THEN 1000 * (2 ^ attempt) ELSE MAX_BACKOFF

restVars == <<site, now, manual, auto, cache, currentPlatform, currentSlug,
              manualLinks, autoLinks, loading, loadingPlatforms, titles, url,
              navigationId, currentPage, currentAbortController, initPc, initPath,
              pagePc, pageSlug, destroyed, aborted, ui, modalPlatform, tasks, clicks,
              events, linksFor, negLoaded, storageCall, searchCall, remoteCalls, writers>>

\* serializeOptions: "const { signal, ...rest } = options", the message to the
\* background script carries the options without the signal
SerializeOptions(options) == [options EXCEPT !.signal = FALSE]

\* the loop head at the given attempt: the attempt's timer is set and bgFetch is
\* called with the controller's signal; or the return after the loop
FetchLoop(call, attempt) ==
  IF LoopContinues(attempt, call.maxRetries)
  THEN [call EXCEPT !.pc = "bgFetch", !.attempt = attempt, !.timer = "armed",
                    !.sent = SerializeOptions([signal |-> TRUE])]
  ELSE [call EXCEPT !.pc = "returned", !.attempt = attempt, !.result = Null]

\* fetch(url, options, timeout, maxRetries) is called
FetchCall(maxRetries) ==
  /\ fetchCall.pc = "idle"
  /\ fetchCall' = FetchLoop([IdleFetch EXCEPT !.maxRetries = maxRetries], 0)
  /\ UNCHANGED restVars

\* the attempt's bgFetch ended: a payload is returned; null and the AbortError go
\* to the backoff after the inner try, another exception to that of the outer catch
FetchAttempt(outcome) ==
  /\ fetchCall.pc = "bgFetch"
  /\ LET call == [fetchCall EXCEPT !.outcomes = Append(fetchCall.outcomes, outcome),
                                    !.timer = "off"]
     IN fetchCall' =
          IF outcome = "data" THEN [call EXCEPT !.pc = "returned", !.result = "data"]
          ELSE IF BackoffBefore(call.attempt, call.maxRetries)
          THEN [call EXCEPT !.pc = "sleep", !.backoff = Backoff(call.attempt)]
          ELSE FetchLoop(call, call.attempt + 1)
  /\ UNCHANGED restVars

\* setTimeout(() => controller.abort(), timeout) fires while bgFetch is awaited:
\* a request that was sent with the signal ends with the AbortError, one sent
\* without it is not reached by the abort
FetchTimeout ==
  /\ fetchCall.pc = "bgFetch"
  /\ fetchCall.timer = "armed"
  /\ LET call == [fetchCall EXCEPT !.timer = "fired"]
     IN fetchCall' =
          IF ~call.sent.signal THEN call
          ELSE LET ended == [call EXCEPT !.outcomes = Append(call.outcomes, "AbortError")]
               IN IF BackoffBefore(call.attempt, call.maxRetries)
                  THEN [ended EXCEPT !.pc = "sleep", !.backoff = Backoff(call.attempt)]
                  ELSE FetchLoop(ended, call.attempt + 1)
  /\ UNCHANGED restVars

\* the backoff's sleep ended: attempt++
FetchBackoff ==
  /\ fetchCall.pc = "sleep"
  /\ fetchCall' = FetchLoop(fetchCall, fetchCall.attempt + 1)
  /\ UNCHANGED restVars

NextFetch ==
  \/ \E maxRetries \in RetryArgs : FetchCall(maxRetries)
  \/ FetchCall(DEFAULT_MAX_RETRIES)
  \/ \E outcome \in Outcomes : FetchAttempt(outcome)
  \/ FetchTimeout
  \/ FetchBackoff

SpecFetch == Init /\ [][NextFetch]_vars

----------------------------------------------------------------------------
(* The adapters' search(): MangaLib, Senkuro, MangaBuff, ReadManga, Inkstory,
   run to the end with a signal that is not aborted *)

\* the longest answer of the remote search to one query
MaxResponse == 2

Adapters == {"mangalib", "senkuro", "mangabuff", "readmanga", "inkstory"}

\* the works the remote knows: slug, the names the search answer carries, and
\* the alternative names (Inkstory: in the search answer; Senkuro: in the
\* answer of fetchManga)
Candidates ==
  {[slug |-> "x", names |-> {"T2"}, alt |-> {}],
   [slug |-> "w", names |-> {"W"}, alt |-> {"T1"}],
   [slug |-> "z", names |-> {"Z"}, alt |-> {}]}

CandidateOf(slug) == CHOOSE c \in Candidates : c.slug = slug

\* the titles the page passes to search()
TitleLists == {<<"T1", "T2">>, <<"T2", "T1">>}

\* the answers of the remote search to one query
Responses == UNION {[1..n -> Candidates] : n \in 0..MaxResponse}

Includes(list, x) == \E i \in 1..Len(list) : list[i] = x

\* response.find(...)?.slug ?? null; ok: the works the predicate of find accepts
FindSlug(response, ok) ==
  LET I == {i \in 1..Len(response) : response[i] \in ok}
  IN IF I = {} THEN Null
     ELSE response[CHOOSE i \in I : \A j \in I : i <= j].slug

\* searchByTitle of MangaBuff, ReadManga and Inkstory, and the first result that
\* MangaLibAPI.search takes from the answer
SearchByTitle(adapter, response, title, allTitles) ==
  LET byAnyTitle == {e \in Candidates : \E n \in e.names : Includes(allTitles, n)}
      byNames == {e \in Candidates : title \in e.names}
      byAltOrName == {e \in Candidates : title \in e.alt \/ title \in e.names}
  IN CASE adapter = "mangabuff" -> FindSlug(response, byAnyTitle)
       [] adapter = "readmanga" -> FindSlug(response, byNames)
       [] adapter = "inkstory" -> FindSlug(response, byAltOrName)
       [] adapter = "mangalib" ->
            IF Len(response) > 0 THEN response[1].slug ELSE Null

\* for (const title of titles): searchByTitle, getMangaData, saveAutoMapping and
\* return; after the loop saveAutoMapping(false)
RECURSIVE LoopSearch(_, _, _, _, _, _)
LoopSearch(adapter, remote, noData, allTitles, i, queried) ==
  IF i > Len(allTitles) THEN [queried |-> queried, saved |-> Neg]
  ELSE LET slug == SearchByTitle(adapter, remote[allTitles[i]], allTitles[i], allTitles)
           q == Append(queried, allTitles[i])
       IN IF slug # Null /\ slug \notin noData THEN [queried |-> q, saved |-> slug]
          ELSE LoopSearch(adapter, remote, noData, allTitles, i + 1, q)

\* SenkuroAPI.searchByTitle: { slug, candidates }
SenkuroSearchByTitle(response, allTitles) ==
  LET exact == {e \in Candidates : \E n \in e.names : Includes(allTitles, n)}
  IN [slug |-> FindSlug(response, exact),
      candidates |-> [i \in 1..Len(response) |-> response[i].slug]]

\* SenkuroAPI.search, its loop over the titles: matchedSlug, candidates
RECURSIVE SenkuroLoop(_, _, _, _, _)
SenkuroLoop(remote, allTitles, i, queried, candidates) ==
  IF i > Len(allTitles)
  THEN [queried |-> queried, matchedSlug |-> Null, candidates |-> candidates]
  ELSE LET result == SenkuroSearchByTitle(remote[allTitles[i]], allTitles)
           q == Append(queried, allTitles[i])
       IN IF result.slug # Null
          THEN [queried |-> q, matchedSlug |-> result.slug, candidates |-> result.candidates]
          ELSE SenkuroLoop(remote, allTitles, i + 1, q,
                           IF Len(result.candidates) > 0 /\ Len(candidates) = 0
                           THEN result.candidates ELSE candidates)

\* SenkuroAPI.search after the loop: the exact match, or the first candidate whose
\* alternativeNames hold one of the titles
SenkuroSearch(remote, noData, allTitles) ==
  LET r == SenkuroLoop(remote, allTitles, 1, <<>>, <<>>)
      hasMatch(slug) == \E n \in CandidateOf(slug).alt : Includes(allTitles, n)
      V == {i \in 1..Len(r.candidates) :
              r.candidates[i] \notin noData /\ hasMatch(r.candidates[i])}
  IN IF r.matchedSlug # Null /\ r.matchedSlug \notin noData
     THEN [queried |-> r.queried, saved |-> r.matchedSlug]
     ELSE IF V # {}
     THEN [queried |-> r.queried,
           saved |-> r.candidates[CHOOSE i \in V : \A j \in V : i <= j]]
     ELSE [queried |-> r.queried, saved |-> Neg]

notSearchVars == <<site, now, storageVars, mappingsVars, titles, url, routerVars, initPc,
                   initPath, pageVars, aborted, modalPlatform, taskVars, events,
                   negLoaded, fetchCall, storageCall, remoteCalls, writers>>

\* what this.fetch returns for the query of each title: the answer of the
\* remote, or null when every attempt failed, which each searchByTitle treats
\* as an answer without works (!response, response?.data, response?.suggestions)
Fetched(c) == [t \in DOMAIN c.remote |-> IF t \in c.failed THEN <<>> ELSE c.remote[t]]

\* api.search(platform, slug, titles, signal) of one adapter, to its return
AdapterSearch(adapter) ==
  /\ searchCall.pc = "ready"
  /\ LET r == IF adapter = "senkuro"
               THEN SenkuroSearch(Fetched(searchCall), searchCall.noData, searchCall.titles)
               ELSE LoopSearch(adapter, Fetched(searchCall), searchCall.noData,
                               searchCall.titles, 1, <<>>)
     IN searchCall' = [searchCall EXCEPT !.pc = "done", !.adapter = adapter,
                                         !.queried = r.queried, !.saved = r.saved]
  /\ UNCHANGED notSearchVars

NextSearch == \E adapter \in Adapters : AdapterSearch(adapter)

\* a page is about to call search(): the titles, the answers of the remote to
\* each title, the titles whose query fails on every attempt, and the works
\* whose data the remote does not return
InitSearch ==
  /\ InitPage /\ site = "mangalib" /\ url = "a"
  /\ \E remote \in [{"T1", "T2"} -> Responses], failed \in SUBSET {"T1", "T2"},
        noData \in SUBSET {c.slug : c \in Candidates}, allTitles \in TitleLists :
        searchCall = [NoSearch EXCEPT !.pc = "ready", !.remote = remote,
                                      !.failed = failed,
                                      !.noData = noData, !.titles = allTitles]

SpecSearch == InitSearch /\ [][NextSearch]_vars

----------------------------------------------------------------------------
(* C2 - C5: cancellation, the negative result, searches in flight *)

\* the positions of a task inside the adapter's search()
SearchPcs == {"sTitle", "sManga", "sSavePos", "sCache", "sSaveNeg"}

\* the Auto entry of the work and target
AutoEntry(all, slug, tp) ==
  IF Has3(all, site, slug, tp) THEN all[site][slug][tp]
  ELSE [value |-> Undef, expires |-> 0]

\* task k takes a step
Steps(k) == tasks'[k] # tasks[k]

\* C2: once the AbortSignal passed to the adapter's search is aborted, a
\* saveAutoMapping that the search calls from then on neither creates nor changes
\* the Auto entry of (platform, slug, target), also when the abort came while the
\* metrics of a matched candidate were awaited.
C2_NoAutoWriteAfterAbort ==
  [][\A k \in TaskIds :
       (tasks[k].pc \in SearchPcs /\ tasks[k].abortedOnCall /\ Steps(k)) =>
         AutoEntry(auto', tasks[k].srcSlug, k[2]) = AutoEntry(auto, tasks[k].srcSlug, k[2])]_vars

\* C3: a loadPlatformData whose search ended on the aborted signal persists
\* nothing: its store.saveAutoMapping changes neither the storage nor the session
\* links, whatever work the session state holds when it resumes.
C3_CancelledPersistsNothing ==
  [][\A k \in TaskIds :
       (tasks[k].pc \in {"pSavePos", "pSaveNeg"} /\ tasks[k].cancelled /\ Steps(k)) =>
         (auto' = auto /\ autoLinks' = autoLinks)]_vars

\* the stored negative result of the work and target has not lapsed
NegLive(all, slug, tp, t) ==
  /\ Has3(all, site, slug, tp)
  /\ all[site][slug][tp].value = Neg
  /\ t < all[site][slug][tp].expires

\* C4: while a negative result stored for (platform, slug, target) that the session
\* state has held is neither deleted nor lapsed, no loadPlatformData that a page
\* runs on its render calls search() for that work and target.
C4_NoSearchWhileNegative ==
  [][\A k \in TaskIds :
       (k[1] \in Navs /\ tasks[k].pc \notin SearchPcs /\ tasks'[k].pc \in SearchPcs) =>
         ~(/\ <<tasks'[k].srcSlug, k[2]>> \in negLoaded'
           /\ NegLive(auto', tasks'[k].srcSlug, k[2], now'))]_vars

\* C5: at most one adapter search is in flight per source work and target.
C5_OneSearchInFlight ==
  \A k1, k2 \in TaskIds :
    (/\ k1 # k2
     /\ tasks[k1].pc \in SearchPcs
     /\ tasks[k2].pc \in SearchPcs
     /\ k1[2] = k2[2])
      => tasks[k1].srcSlug # tasks[k2].srcSlug

----------------------------------------------------------------------------
(* C6 - C9: the session context and the router *)

\* C6: whenever no setContext is in flight, the links of the session state are
\* those read for its current work.
C6_LinksOfCurrentWork ==
  (\A j \in Navs : pagePc[j] # "ctx") => (currentSlug # Null => linksFor = currentSlug)

\* C7: an init() that finds its navigation superseded when one of its awaits
\* completes returns at once: it does not assign currentPage, does not call
\* render(), and has destroyed the page it constructed.
C7_SupersededInitReturns ==
  [][\A i \in Navs :
       (initPc[i] \in {"preInit", "destroy", "create"} /\ initPc'[i] # initPc[i]
        /\ navigationId # i) =>
         /\ initPc'[i] = "done"
         /\ currentPage' = currentPage
         /\ pagePc'[i] = pagePc[i]
         /\ pagePc[i] # "none" => destroyed'[i]]_vars

\* a superseded init() has returned after destroying the page it had constructed
C7_Witness ==
  \E i \in Navs :
    initPc[i] = "done" /\ pagePc[i] = "constructed" /\ destroyed[i] /\ navigationId > i
    /\ currentPage # i

\* navigation j takes a step of its page's initialize or destroys its orphaned page
NavigationSteps(j) ==
  \/ pagePc[j] \in {"waitEl", "ctx", "data"} /\ pagePc'[j] # pagePc[j]
  \/ initPc[j] = "create" /\ initPc'[j] = "done"

\* C8: once the current navigation has called setContext, no step of an earlier
\* navigation changes the context, the titles or the links of the session state.
C8_EarlierNavigationSilent ==
  [][\A j \in Navs :
       (NavigationSteps(j) /\ navigationId > j
        /\ pagePc[navigationId] \notin {"none", "waitEl"})
         => UNCHANGED <<currentPlatform, currentSlug, titles, manualLinks, autoLinks>>]_vars

\* the init() calls made so far have all returned or reached render()
RouterIdle == \A i \in Navs : initPc[i] \in {"none", "done", "render"}

\* C9: the signal of a displayed page that a navigation tore down is aborted
\* before the next page calls setContext, and in any case once the navigation is
\* done, also when its URL matches no route.
C9_TornDownPageAborted ==
  \A j \in Navs :
    (initPc[j] = "render" /\ destroyed[j]) =>
      /\ (\E k \in Navs : k > j /\ pagePc[k] \notin {"none", "waitEl"}) => aborted[j]
      /\ RouterIdle => aborted[j]

----------------------------------------------------------------------------
(* C10 *)

\* the attempts made so far have all failed
AllFailed(outcomes) == \A n \in 1..Len(outcomes) : outcomes[n] # "data"

\* C10: fetch returns a payload or null and never throws; it makes at most
\* maxRetries attempts; it returns the first payload without a further attempt;
\* a null result, a timeout and any other exception are each a failed attempt
\* followed by the next one; after the last failed attempt it returns null.
C10_FetchRetries ==
  LET n == Len(fetchCall.outcomes)
  IN /\ fetchCall.pc \in {"idle", "bgFetch", "sleep", "returned"}
     /\ n <= fetchCall.maxRetries
     /\ fetchCall.pc = "bgFetch" => n < fetchCall.maxRetries
     /\ fetchCall.pc \in {"bgFetch", "sleep"} =>
          n < fetchCall.maxRetries /\ AllFailed(fetchCall.outcomes)
     /\ fetchCall.pc = "returned" =>
          \/ /\ fetchCall.result = "data"
             /\ n >= 1 /\ fetchCall.outcomes[n] = "data"
             /\ AllFailed(SubSeq(fetchCall.outcomes, 1, n - 1))
          \/ /\ fetchCall.result = Null
             /\ AllFailed(fetchCall.outcomes)
             /\ n = fetchCall.maxRetries

\* fetch returned the payload of its last allowed attempt after a null result and
\* an exception
C10_Witness ==
  /\ fetchCall.pc = "returned"
  /\ fetchCall.result = "data"
  /\ fetchCall.maxRetries = DEFAULT_MAX_RETRIES
  /\ Len(fetchCall.outcomes) = DEFAULT_MAX_RETRIES
  /\ \E a, b \in 1..Len(fetchCall.outcomes) :
       fetchCall.outcomes[a] = "null" /\ fetchCall.outcomes[b] \in {"AbortError", "Error"}

-----------------------------------------------------------------------------
(* C11: the per-attempt timeout *)

\* C11: when the timeout of an attempt fires while the transport has not
\* answered, the attempt is abandoned: fetch no longer waits for that bgFetch
C11_TimeoutEndsAttempt ==
  [][(fetchCall.timer = "armed" /\ fetchCall'.timer = "fired")
       => fetchCall'.pc # "bgFetch"]_vars

-----------------------------------------------------------------------------
(* C12 - C16, C19, C20: the persistent store's get and set *)

\* the step is a call of the persistent store
CallStep == storageCall' # storageCall

\* the step is the given get or set for the key, with the backing storage as io
CallOf(op, key, io) ==
  /\ CallStep
  /\ storageCall'.op = op
  /\ storageCall'.args = key
  /\ storageCall'.io = io

\* C12: for an Auto entry with now > expires, autoMappings.get returns null and
\* writes nothing: the entry and the rest of the storage stay as they are
C12_ExpiredAutoAbsent ==
  [][\A slug \in StoredSlugs, tp \in Targets :
       (/\ CallOf("autoGet", <<slug, tp>>, "ok")
        /\ Has3(auto, site, slug, tp)
        /\ now > auto[site][slug][tp].expires)
         => /\ storageCall'.outcome = "null"
            /\ UNCHANGED storageVars
            /\ Has3(auto', site, slug, tp)]_vars

\* a get returned null for an Auto entry that is still stored, past its expiry
C12_Witness ==
  \E slug \in StoredSlugs, tp \in Targets :
    /\ storageCall.op = "autoGet" /\ storageCall.args = <<slug, tp>>
    /\ storageCall.io = "ok" /\ storageCall.outcome = "null"
    /\ Has3(auto, site, slug, tp)
    /\ storageCall.at > auto[site][slug][tp].expires

\* C13: get of the Auto and of the Metrics partition returns null for an entry
\* whenever expires <= now, the instant now = expires included
C13_AbsentAtExpiry ==
  [][/\ \A slug \in StoredSlugs, tp \in Targets :
          (/\ CallOf("autoGet", <<slug, tp>>, "ok")
           /\ Has3(auto, site, slug, tp)
           /\ auto[site][slug][tp].expires <= now)
            => storageCall'.outcome = "null"
     /\ \A tp \in Targets, targetSlug \in CachedSlugs :
          (/\ CallOf("cacheGet", <<tp, targetSlug>>, "ok")
           /\ CacheHas(cache, tp, targetSlug)
           /\ cache[tp][targetSlug].expires <= now)
            => storageCall'.outcome = "null"]_vars

\* C14: every entry of the Metrics cache has lastChapterRead <= chapter
C14_CacheClamped ==
  \A tp \in DOMAIN cache : \A targetSlug \in DOMAIN cache[tp] :
    cache[tp][targetSlug].lastChapterRead <= cache[tp][targetSlug].chapter

\* C15: a read of a non-expired Metrics entry with lastChapterRead > chapter
\* reports lastChapterRead equal to chapter
C15_ReadClamped ==
  [][\A tp \in Targets, targetSlug \in CachedSlugs :
       (/\ CallOf("cacheGet", <<tp, targetSlug>>, "ok")
        /\ CacheHas(cache, tp, targetSlug)
        /\ now < cache[tp][targetSlug].expires
        /\ cache[tp][targetSlug].lastChapterRead > cache[tp][targetSlug].chapter)
         => /\ storageCall'.outcome = "value"
            /\ storageCall'.value.lastChapterRead = cache[tp][targetSlug].chapter]_vars

\* C16: a get that follows a set of the same key (ttl > 0) before the expiry
\* returns what was set: the slug or false for Auto; chapter and lastChapterRead
\* unchanged, with expires = the time of the set + ttl, for Metrics
C16_RoundTrip ==
  [][(/\ CallStep
      /\ storageCall'.afterSet
      /\ storageCall'.io = "ok"
      /\ storageCall.ttl > 0
      /\ now < storageCall.at + storageCall.ttl)
       => /\ storageCall'.op = "autoGet" =>
               /\ storageCall'.outcome = "value"
               /\ storageCall'.value.slug = storageCall.value.slug
          /\ storageCall'.op = "cacheGet" =>
               /\ storageCall'.outcome = "value"
               /\ storageCall'.value.chapter = storageCall.value.chapter
               /\ storageCall'.value.lastChapterRead = storageCall.value.lastChapterRead
               /\ storageCall'.value.expires = storageCall.at + storageCall.ttl]_vars

\* a cache.get after the cache.set of a pair with lastChapterRead > chapter
\* returned before the expiry
C16_Witness ==
  /\ storageCall.op = "cacheGet" /\ storageCall.afterSet
  /\ storageCall.io = "ok" /\ storageCall.outcome = "value"
  /\ storageCall.value.lastChapterRead > storageCall.value.chapter
  /\ storageCall.at < storageCall.value.expires

\* C19: a set whose write to the backing storage fails rejects, and the three
\* partitions are left as they were
C19_FailedWriteSurfaces ==
  [][(/\ CallStep
      /\ storageCall'.op \in {"manualSet", "autoSet", "cacheSet"}
      /\ storageCall'.io = "writeFails")
       => /\ storageCall'.outcome = "rejected"
          /\ UNCHANGED storageVars]_vars

\* a cache.set rejected on a failed write, over an entry that is stored
C19_Witness ==
  /\ storageCall.op = "cacheSet" /\ storageCall.io = "writeFails"
  /\ storageCall.outcome = "rejected"
  /\ \E tp \in Targets, targetSlug \in CachedSlugs :
       /\ storageCall.args = <<tp, targetSlug>>
       /\ CacheHas(cache, tp, targetSlug)
       /\ cache[tp][targetSlug].chapter # storageCall.value.chapter

\* C20: a get whose read of the backing storage fails returns null
C20_FailedReadAbsent ==
  [][(/\ CallStep
      /\ storageCall'.op \in {"manualGet", "autoGet", "cacheGet"}
      /\ storageCall'.io = "readFails")
       => storageCall'.outcome = "null"]_vars

-----------------------------------------------------------------------------
(* C17: saveManualLink twice *)

\* C17: a saveManualLink that follows the same saveManualLink in the same context
\* leaves Manual, Auto, Metrics and the session's manualLinks as the first left them
C17_SaveManualLinkIdempotent ==
  [][(/\ storageCall' # storageCall
      /\ storageCall'.op = "saveManualLink"
      /\ storageCall'.repeated)
       => UNCHANGED <<manual, auto, cache, manualLinks>>]_vars

\* the same link was saved twice in a row over an Auto entry of the work
C17_Witness ==
  /\ storageCall.op = "saveManualLink" /\ storageCall.repeated
  /\ \E tp \in Targets :
       /\ Has3(manual, site, currentSlug, tp)
       /\ manual[site][currentSlug][tp] = storageCall.args[2]
       /\ Has3(auto, site, currentSlug, tp)

-----------------------------------------------------------------------------
(* C18: the loading flag *)

\* C18: a platform is in loadingPlatforms only while an operation on it is in
\* flight: every operation that added it has removed it when it ended
C18_LoadingCleared ==
  \A tp \in loadingPlatforms : \E k \in TaskIds : k[2] = tp /\ tasks[k].pc # "idle"

-----------------------------------------------------------------------------
(* C21: a link entered by the user *)

\* the step at which the saveManualLink of handler k completes
SaveLinkStep(k) == tasks[k].pc = "mSave" /\ tasks'[k].pc = "sInval"

\* the step at which the invalidateCache of handleSaveLink completes and
\* loadPlatformData is entered
SaveLinkInvalidated(k) == tasks[k].pc = "sInval" /\ tasks'[k].pc # "sInval"

\* C21: handleSaveLink for target t and slug x stores Manual[(p,s)][t] = x, so that
\* the resolution on the storage returns x from the manual tier whatever the Auto
\* entry is; it writes no Auto entry; it removes the Metrics entry (t, x) before
\* loadPlatformData runs, and loadPlatformData takes the fetch/cache path, not
\* the search
C21_UserLinkAccepted ==
  [][\A k \in TaskIds :
       /\ SaveLinkStep(k) =>
            /\ tasks[k].wSlug # Null
            /\ UNCHANGED auto
            /\ GetTargetSlug(manual', auto', site, tasks[k].wSlug, k[2], now')
                 = [slug |-> tasks[k].found, source |-> "manual"]
       /\ SaveLinkInvalidated(k) =>
            /\ UNCHANGED auto
            /\ ~CacheHas(cache', k[2], tasks[k].found)
            /\ (k[2] \in DOMAIN manualLinks /\ manualLinks[k[2]] = tasks[k].found) =>
                 /\ tasks'[k].pc \in {"lcr1", "idle"}
                 /\ tasks'[k].pc = "lcr1" => tasks'[k].found = tasks[k].found]_vars


\* the saveManualLink of a handler has completed over an Auto entry of the same
\* target, and the storage resolves the target to the entered slug
C21_Witness ==
  \E k \in TaskIds, s \in WorkSlugs :
    /\ tasks[k].pc = "sInval"
    /\ Has3(auto, site, s, k[2])
    /\ GetTargetSlug(manual, auto, site, s, k[2], now)
         = [slug |-> tasks[k].found, source |-> "manual"]


----------------------------------------------------------------------------
(* C22: refresh over a negative result *)

\* the page of handler k is still the displayed one after the step
StillDisplayed(k) == ~destroyed'[tasks[k].page] /\ ~aborted'[tasks[k].page]

\* the step at which the deleteAutoMapping of handleRefresh completes
RefreshDeleted(k) ==
  tasks[k].pc = "rDelAuto" /\ tasks'[k].pc # "rDelAuto" /\ StillDisplayed(k)

\* the step at which loadPlatformData has stored the match of the search that a
\* refresh over a negative result started
RefreshMatched(k) ==
  /\ tasks[k].pc = "pSavePos" /\ tasks[k].afterNeg /\ tasks'[k].pc # "pSavePos"
  /\ StillDisplayed(k)

\* C22: a refresh of target t while Auto[(p,s)][t] = false deletes that entry from
\* the storage and from autoLinks and runs the search again; if the search matches
\* slug x, loadPlatformData ends with Auto[(p,s)][t] = x in the storage and
\* autoLinks[t] = x in the session.
C22_RefreshReplacesNegative ==
  [][\A k \in TaskIds :
       /\ RefreshDeleted(k) =>
            /\ tasks[k].wSlug # Null
            /\ ~Has3(auto', site, tasks[k].wSlug, k[2])
            /\ k[2] \notin DOMAIN autoLinks'
            /\ k[2] \notin DOMAIN manualLinks' => tasks'[k].pc = "sTitle"
       /\ RefreshMatched(k) =>
            /\ Has3(auto', site, tasks[k].srcSlug, k[2])
            /\ auto'[site][tasks[k].srcSlug][k[2]].value = tasks[k].found
            /\ k[2] \in DOMAIN autoLinks'
            /\ autoLinks'[k[2]] = tasks[k].found]_vars


----------------------------------------------------------------------------
(* C23, C24: the order of the queries and the match an adapter accepts *)

\* the match that the adapter accepts from the answer to one title: the work it
\* picks from the answer, if the remote returns its data; for Senkuro the exact
\* match, or else the first work of the answer whose alternative names hold one
\* of the titles
AcceptedFrom(adapter, remote, noData, title, allTitles) ==
  LET response == remote[title]
      withData(slug) == IF slug # Null /\ slug \notin noData THEN slug ELSE Null
      byAlt == {e \in Candidates :
                  e.slug \notin noData /\ \E n \in e.alt : Includes(allTitles, n)}
  IN IF adapter = "senkuro"
     THEN LET exact == withData(SenkuroSearchByTitle(response, allTitles).slug)
          IN IF exact # Null THEN exact ELSE FindSlug(response, byAlt)
     ELSE withData(SearchByTitle(adapter, response, title, allTitles))

\* the positions of the titles whose answer yields an accepted match
AcceptingTitles(c) ==
  {i \in 1..Len(c.titles) :
     AcceptedFrom(c.adapter, Fetched(c), c.noData, c.titles[i], c.titles) # Null}

\* C23: search() queries the titles in list order and stops at the first title
\* whose answer yields an accepted match: no later title is queried and the Auto
\* mapping saved is the match of that title; with no such title every title is
\* queried and the negative result is saved.
C23_StopsAtFirstMatch ==
  searchCall.pc = "done" =>
    LET F == AcceptingTitles(searchCall)
    IN IF F = {}
       THEN searchCall.queried = searchCall.titles /\ searchCall.saved = Neg
       ELSE LET f == CHOOSE i \in F : \A j \in F : i <= j
            IN /\ searchCall.queried = SubSeq(searchCall.titles, 1, f)
               /\ searchCall.saved = AcceptedFrom(searchCall.adapter, Fetched(searchCall),
                                                  searchCall.noData, searchCall.titles[f],
                                                  searchCall.titles)


\* the title set the remote declares for a work: its names and alternative names
DeclaredTitles(slug) == CandidateOf(slug).names \cup CandidateOf(slug).alt

\* C24: search() saves a positive Auto mapping to work x only if the title set
\* that the remote declares for x holds one of the caller's titles, by string
\* equality; for every adapter.
C24_SavedMatchCarriesTitle ==
  (searchCall.pc = "done" /\ searchCall.saved # Neg) =>
    \E n \in DeclaredTitles(searchCall.saved) : Includes(searchCall.titles, n)


----------------------------------------------------------------------------
(* C25: no empty containers *)

\* no platform key of the object maps to {}, and no slug key maps to {}
NoEmpty3(all) ==
  \A p \in DOMAIN all :
    /\ DOMAIN all[p] # {}
    /\ \A s \in DOMAIN all[p] : DOMAIN all[p][s] # {}

\* no target platform key of the Metrics object maps to {}
NoEmpty2(all) == \A tp \in DOMAIN all : DOMAIN all[tp] # {}

\* C25: after any sequence of set, delete and flushExpired the stored object of
\* a partition (Manual, Auto, Metrics) holds no empty container.
C25_NoEmptyContainer == NoEmpty3(manual) /\ NoEmpty3(auto) /\ NoEmpty2(cache)

\* the deleteAutoMapping of a refresh has removed the only Auto entry
C25_Witness ==
  \E k \in TaskIds :
    tasks[k].pc = "sTitle" /\ tasks[k].afterNeg /\ auto = EmptyObj /\ now > 0


----------------------------------------------------------------------------
(* C26: the effect of flushExpired *)

\* the entries of an Auto object, with their keys
Entries3(all) ==
  {<<p, s, tp, all[p][s][tp]>> : <<p, s, tp>> \in
     {k \in Sites \X WorkSlugs \X Targets : Has3(all, k[1], k[2], k[3])}}

\* the entries of a Metrics object, with their keys
Entries2(all) ==
  {<<tp, sl, all[tp][sl]>> : <<tp, sl>> \in
     {k \in Targets \X TargetSlugs : CacheHas(all, k[1], k[2])}}

\* a step of the background sweep (the only step that changes the storage
\* without a call of set)
SweepStep == <<auto, cache>>' # <<auto, cache>> /\ storageCall' = storageCall

----------------------------------------------------------------------------
(* The Auto partition under overlapping calls: every call reads the whole object
   (getAll), changes its copy and writes the whole object back (setItem) *)

\* the target platforms of the entries of one work
RaceTargets == {"mangabuff", "senkuro"}

\* the object a call changes and writes back: the one its getAll returned
RmwBaseStored(read, stored) == stored

RmwBase(read, stored) == read

notRaceVars == <<site, manual, cache, mappingsVars, titles, url, routerVars, initPc,
                 initPath, pageVars, aborted, modalPlatform, taskVars, negLoaded,
                 fetchCall, storageCall, searchCall, remoteCalls>>

\* autoMappings.set / delete / flushExpired: "const all = await this.getAll()"
RmwRead(w, op, tp) ==
  /\ writers[w].pc = "idle"
  /\ \A v \in Writers : v < w => writers[v].pc # "idle"
  /\ writers' = [writers EXCEPT ![w] = [IdleWriter EXCEPT !.pc = "read", !.op = op,
                                                             !.tp = tp, !.all = auto]]
  /\ UNCHANGED <<auto, now, events, notRaceVars>>

\* the rest of the call: the change of the copy and, when the call writes,
\* "await storage.setItem(KEYS.AUTO_MAPPINGS, all)"
RmwWrite(w) ==
  /\ writers[w].pc = "read"
  /\ LET all == RmwBase(writers[w].all, auto)
         tp == writers[w].tp
         swept == AutoFlushExpired(all, now)
     IN auto' = CASE writers[w].op = "set" -> AutoSet(all, site, "a", tp, "x", now)
                  [] writers[w].op = "delete" ->
                       IF Has3(all, site, "a", tp) THEN Delete3(all, site, "a", tp) ELSE auto
                  [] writers[w].op = "flushExpired" ->
                       IF swept.changed THEN swept.all ELSE auto
  /\ writers' = [writers EXCEPT ![w] = [IdleWriter EXCEPT !.pc = "done",
                                           !.op = writers[w].op, !.tp = writers[w].tp]]
  /\ UNCHANGED <<now, events, notRaceVars>>

NextRace ==
  \/ \E w \in Writers, op \in {"set", "delete"}, tp \in RaceTargets : RmwRead(w, op, tp)
  \/ \E w \in Writers : RmwRead(w, "flushExpired", Null)
  \/ \E w \in Writers : RmwWrite(w)
  \/ Tick

InitRace == Init /\ site = "mangalib" /\ url = "a"

SpecRace == InitRace /\ [][NextRace]_vars

----------------------------------------------------------------------------
(* C27, C28: overlapping calls on one partition *)

\* the step at which a call of the given operation writes (or ends without a write)
WriteStep(w, op) ==
  writers[w].pc = "read" /\ writers[w].op = op /\ writers'[w].pc = "done"

\* C27: a flushExpired whose read and write are interleaved with a set or a
\* delete never drops or reverts the effect of that call: its write leaves every
\* stored entry that has not expired as it is, and brings back no entry that is
\* not stored.
C27_SweepKeepsConcurrentWrites ==
  [][\A w \in Writers : WriteStep(w, "flushExpired") =>
       \A tp \in RaceTargets :
         /\ (Has3(auto, site, "a", tp) /\ ~(auto[site]["a"][tp].expires < now)) =>
              (Has3(auto', site, "a", tp) /\ auto'[site]["a"][tp] = auto[site]["a"][tp])
         /\ ~Has3(auto, site, "a", tp) => ~Has3(auto', site, "a", tp)]_vars

\* C28: two writers of one partition whose read-modify-write steps interleave:
\* the later write wins. After the write of a set the stored object is the one
\* that call had read plus its own entry, so an entry that another writer
\* stored between the read and the write is missing.
C28_LaterWriteWins ==
  [][\A w \in Writers : WriteStep(w, "set") =>
       \A tp \in RaceTargets \ {writers[w].tp} :
         /\ Has3(auto', site, "a", tp) <=> Has3(writers[w].all, site, "a", tp)
         /\ Has3(auto', site, "a", tp) =>
              auto'[site]["a"][tp] = writers[w].all[site]["a"][tp]]_vars

\* two sets for different target platforms of one work have both completed, no
\* other call was made, and the entry of one of them is not stored
C28_Witness ==
  \E w1, w2 \in Writers :
    /\ writers[w1].pc = "done" /\ writers[w1].op = "set"
    /\ writers[w2].pc = "done" /\ writers[w2].op = "set"
    /\ writers[w1].tp # writers[w2].tp
    /\ \A w \in Writers \ {w1, w2} : writers[w].pc = "idle"
    /\ ~Has3(auto, site, "a", writers[w1].tp)
    /\ Has3(auto, site, "a", writers[w2].tp)


----------------------------------------------------------------------------
(* C29: the background sweep removes what has expired *)

\* the storage calls with the sweep of the background script, which runs on
\* startup and then on every FLUSH_INTERVAL
SpecSweep == InitStorage /\ [][NextStorage]_vars /\ WF_vars(FlushExpired)

\* an Auto entry is stored whose expiry has passed
AutoExpiredStored == \E a \in Entries3(auto) : a[4].expires < now

\* a Metrics entry is stored whose expiry has passed
CacheExpiredStored == \E c \in Entries2(cache) : c[3].expires < now

\* C29: every Auto or Metrics entry whose expiry has passed is eventually
\* removed from the storage (or replaced by a set with a new expiry): no expired
\* entry stays stored forever.
C29_ExpiredEventuallyRemoved ==
  /\ AutoExpiredStored ~> ~AutoExpiredStored
  /\ CacheExpiredStored ~> ~CacheExpiredStored

\* the Metrics entry of the last cache.set had expired and the sweep has removed it
C29_Witness ==
  /\ storageCall.op = "cacheSet" /\ storageCall.outcome = "resolved"
  /\ storageCall.at + storageCall.ttl < now
  /\ cache = EmptyObj


----------------------------------------------------------------------------
(* handleRefresh of a resolved target, with cacheResult calls of other discovery
   tasks on the same Metrics object *)

\* the slug each target platform is resolved to
ResolvedSlug == [mangabuff |-> "x", senkuro |-> "y"]

notRefreshVars == <<site, manual, auto, mappingsVars, titles, url, routerVars, initPc,
                    initPath, pageVars, aborted, modalPlatform, taskVars, negLoaded,
                    fetchCall, storageCall, searchCall, remoteCalls>>

\* cacheResult -> cache.set: "const all = await this.getAll()"
CacheRmwRead(w, tp) ==
  /\ writers[w].pc = "idle"
  /\ \A v \in Writers : v < w => writers[v].pc # "idle"
  /\ writers' = [writers EXCEPT ![w] = [IdleWriter EXCEPT !.pc = "read", !.op = "cacheSet",
                                                             !.tp = tp, !.all = cache]]
  /\ UNCHANGED <<cache, now, events, notRefreshVars>>

\* cache.set: the entry is put into the copy and the copy is written
CacheRmwWrite(w) ==
  /\ writers[w].pc = "read" /\ writers[w].op = "cacheSet"
  /\ cache' = CacheSet(RmwBase(writers[w].all, cache), writers[w].tp,
                       ResolvedSlug[writers[w].tp], RemoteMetrics, now)
  /\ writers' = [writers EXCEPT ![w] = [IdleWriter EXCEPT !.pc = "done", !.op = "cacheSet",
                                                             !.tp = writers[w].tp]]
  /\ UNCHANGED <<now, events, notRefreshVars>>

\* handleRefresh with a resolved target up to the getAll of cache.delete
\* (store.invalidateCache); all: the Metrics object when the refresh began
RefreshInvalidateCall(w, tp) ==
  /\ writers[w].pc = "idle"
  /\ \A v \in Writers : v < w => writers[v].pc # "idle"
  /\ writers' = [writers EXCEPT ![w] = [IdleWriter EXCEPT !.pc = "inval", !.op = "refresh",
                                                             !.tp = tp, !.all = cache,
                                                             !.at = now]]
  /\ UNCHANGED <<cache, now, events, notRefreshVars>>

\* cache.delete: the entry is removed from the copy and the copy is written;
\* handleRefresh goes on with api.getData(targetSlug)
RefreshInvalidated(w) ==
  /\ writers[w].pc = "inval"
  /\ LET all == RmwBase(writers[w].all, cache)
         tp == writers[w].tp
     IN cache' = IF CacheHas(all, tp, ResolvedSlug[tp])
                 THEN CacheDelete(all, tp, ResolvedSlug[tp]) ELSE cache
  /\ writers' = [writers EXCEPT ![w].pc = "getData"]
  /\ UNCHANGED <<now, events, notRefreshVars>>

\* api.getData(targetSlug): the cached metrics, else those fetched and cached
RefreshGetData(w) ==
  /\ writers[w].pc = "getData"
  /\ LET tp == writers[w].tp
         hit == CacheGetHits(cache, tp, ResolvedSlug[tp], now)
     IN /\ cache' = IF hit THEN cache
                     ELSE CacheSet(cache, tp, ResolvedSlug[tp], RemoteMetrics, now)
        /\ writers' = [writers EXCEPT ![w] =
                         [IdleWriter EXCEPT !.pc = "done", !.tp = tp,
                                            !.op = IF hit THEN "cached" ELSE "fetched"]]
  /\ UNCHANGED <<now, events, notRefreshVars>>

NextRefresh ==
  \/ \E w \in Writers, tp \in RaceTargets : CacheRmwRead(w, tp)
  \/ \E w \in Writers : CacheRmwWrite(w)
  \/ \E w \in Writers : RefreshInvalidateCall(w, "mangabuff")
  \/ \E w \in Writers : RefreshInvalidated(w)
  \/ \E w \in Writers : RefreshGetData(w)
  \/ Tick

SpecRefresh == InitRace /\ [][NextRefresh]_vars

----------------------------------------------------------------------------
(* C30: a refresh fetches again *)

\* a Metrics entry of the refreshed target was stored before the tick in which
\* refresh w began
StoredBefore(w) ==
  LET tp == writers[w].tp
      all == writers[w].all
  IN /\ CacheHas(all, tp, ResolvedSlug[tp])
     /\ all[tp][ResolvedSlug[tp]].expires < writers[w].at + DEFAULT_TTL

\* C30: a refresh of a target resolved to slug x deletes the Metrics entry (t, x)
\* and then fetches from the remote: its getData never answers from a Metrics
\* entry that was stored before the refresh began.
C30_RefreshFetchesAgain ==
  [][\A w \in Writers :
       /\ (writers[w].pc = "inval" /\ writers'[w].pc = "getData"
             /\ CacheHas(writers[w].all, writers[w].tp, ResolvedSlug[writers[w].tp]))
            => ~CacheHas(cache', writers[w].tp, ResolvedSlug[writers[w].tp])
       /\ (writers[w].pc = "getData" /\ writers'[w].op = "cached" /\ StoredBefore(w))
            => cache[writers[w].tp][ResolvedSlug[writers[w].tp]]
                 # writers[w].all[writers[w].tp][ResolvedSlug[writers[w].tp]]]_vars

----------------------------------------------------------------------------
(* C31: when the negative result is stored *)

\* the match that the adapter finds in the remote's answer to a title, whether
\* or not the query got through and the metrics of the work can be fetched
MatchInAnswer(c, title) == AcceptedFrom(c.adapter, c.remote, {}, title, c.titles)

\* C31: search() stores the negative result only when every title was queried
\* and the remote answered each query with no matching work: none of its
\* queries failed on every attempt, and no matching work was passed over
\* because its metrics could not be fetched
C31_NegativeOnlyWhenNothingMatched ==
  (searchCall.pc = "done" /\ searchCall.saved = Neg) =>
    /\ searchCall.queried = searchCall.titles
    /\ \A i \in 1..Len(searchCall.titles) :
         /\ searchCall.titles[i] \notin searchCall.failed
         /\ MatchInAnswer(searchCall, searchCall.titles[i]) = Null

----------------------------------------------------------------------------
(* C32: the waits between the attempts *)

\* min(1000 * 2^k, 10000) for k = 0, 1, 2, ...: the doubling passes 10000 at k = 4
WaitAfter(k) ==
  LET doubling == <<1000, 2000, 4000, 8000>>
  IN IF k < Len(doubling) THEN doubling[k + 1] ELSE 10000

\* attempt k of the call ends as a failed attempt: with null, with the timeout's
\* AbortError or with another exception
AttemptFails(k) ==
  /\ fetchCall.pc = "bgFetch" /\ fetchCall.attempt = k
  /\ Len(fetchCall'.outcomes) = k + 1
  /\ fetchCall'.outcomes[k + 1] \in {"null", "AbortError", "Error"}

\* C32: after failed attempt k that is not the last one fetch sleeps
\* min(1000 * 2^k, 10000) ms, whatever made the attempt fail, and the step after
\* the sleep is attempt k + 1; after the last attempt it returns without a sleep
C32_BackoffBetweenAttempts ==
  [][/\ \A k \in 0..MaxRetriesArg :
          AttemptFails(k) =>
            IF k + 1 < fetchCall.maxRetries
            THEN /\ fetchCall'.pc = "sleep"
                 /\ fetchCall'.backoff = WaitAfter(k)
                 /\ fetchCall'.backoff <= 10000
            ELSE fetchCall'.pc = "returned"
     /\ fetchCall.pc = "sleep" =>
          /\ fetchCall'.pc = "bgFetch"
          /\ fetchCall'.attempt = fetchCall.attempt + 1]_vars

\* the fifth attempt has failed with an exception and fetch sleeps the capped
\* 10000 ms, after a first attempt that failed with a null result
C32_Witness ==
  /\ fetchCall.pc = "sleep"
  /\ fetchCall.attempt = 4
  /\ fetchCall.backoff = 10000
  /\ fetchCall.outcomes[1] = "null"
  /\ fetchCall.outcomes[5] = "Error"

----------------------------------------------------------------------------
(* One search() of MangaBuff, MangaLib or Senkuro, request by request: every
   attempt of this.fetch is a request to the remote; the signal of the page
   may be aborted at any await *)

CallAdapters == {"mangabuff", "mangalib", "senkuro"}

\* what a request ends with: an answer with a match (a matching work; the data
\* of the work), another answer (no match; for Senkuro works that are candidates,
\* or data without a matching alternative name), or a failed attempt
Answers == {"match", "other", "null"}

notCallVars == <<site, now, storageVars, mappingsVars, titles, url, routerVars, initPc,
                 initPath, pageVars, aborted, modalPlatform, taskVars, events,
                 negLoaded, fetchCall, storageCall, searchCall, writers>>

\* bgFetch is called: a request is sent
SendRequest(c, call, attempt) ==
  [c EXCEPT !.pc = "bgFetch", !.call = call, !.attempt = attempt,
            !.inFlight = @ + 1,
            !.requests = IF call = "search" THEN @ + 1 ELSE @,
            !.late = @ \/ c.signal]

\* getToken() or getCached() is awaited before this.fetch is called
AwaitStorage(c, call) == [c EXCEPT !.pc = "storage", !.call = call]

\* search() returns (after its saveAutoMapping and cacheResult, if any)
SearchReturns(c) == [c EXCEPT !.pc = "returned", !.call = "none"]

\* Senkuro, the loop over the candidates: if (signal?.aborted) return null;
\* getMangaDataWithManga(entitySlug), which awaits getToken()
VerifyCandidates(c) ==
  IF c.signal \/ c.cands = 0 THEN SearchReturns(c)
  ELSE AwaitStorage([c EXCEPT !.cands = @ - 1], "verify")

\* after the loop over the titles: if (signal?.aborted) return null; MangaBuff
\* and MangaLib save the negative result, Senkuro goes on with the exact match
\* or with the candidates
AfterTitles(c) ==
  IF c.signal \/ c.adapter # "senkuro" THEN SearchReturns(c)
  ELSE IF c.matched THEN AwaitStorage(c, "manga")
  ELSE VerifyCandidates(c)

\* for (const title of titles) { if (signal?.aborted) return null; ... } at
\* title idx: the query of the title is sent
NextTitle(c, idx) ==
  IF idx > Len(c.titles) THEN AfterTitles([c EXCEPT !.idx = idx])
  ELSE IF c.signal THEN SearchReturns(c)
  ELSE SendRequest([c EXCEPT !.idx = idx, !.queries = @ + 1], "search", 0)

\* this.fetch returned to the adapter with the answer, or with null
FetchReturns(c, answer) ==
  CASE c.call = "search" ->
         IF c.adapter = "senkuro"
         THEN IF answer = "match"
              THEN AfterTitles([c EXCEPT !.matched = TRUE, !.cands = MaxResponse])
              ELSE NextTitle([c EXCEPT !.cands = IF answer = "other" /\ @ = 0
                                                 THEN MaxResponse ELSE @], c.idx + 1)
         ELSE IF answer # "match" THEN NextTitle(c, c.idx + 1)
         ELSE IF c.signal THEN SearchReturns(c)
         ELSE IF c.adapter = "mangalib" THEN AwaitStorage(c, "chapters")
         ELSE SendRequest(c, "manga", 0)
    [] c.call = "manga" ->
         IF answer # "null" THEN SearchReturns(c)
         ELSE IF c.adapter = "senkuro"
         THEN IF c.signal THEN SearchReturns(c) ELSE VerifyCandidates(c)
         ELSE NextTitle(c, c.idx + 1)
    [] c.call = "chapters" ->
         IF answer # "null" THEN AwaitStorage(c, "bookmark")
         ELSE NextTitle(c, c.idx + 1)
    [] c.call = "bookmark" -> SearchReturns(c)
    [] c.call = "verify" ->
         IF answer = "match" THEN SearchReturns(c) ELSE VerifyCandidates(c)

\* api.search(platform, slug, titles, signal) is called
ApiSearch(adapter, allTitles) ==
  /\ remoteCalls.pc = "idle"
  /\ remoteCalls' = NextTitle([NoCalls EXCEPT !.adapter = adapter, !.titles = allTitles], 1)
  /\ UNCHANGED notCallVars

\* the request of an attempt ended: an answer is returned by this.fetch; a
\* failed attempt is followed by the backoff, the last one by the return of null
RequestEnds(answer) ==
  /\ remoteCalls.pc = "bgFetch"
  /\ LET c == [remoteCalls EXCEPT !.inFlight = @ - 1]
     IN remoteCalls' =
          IF answer # "null" THEN FetchReturns(c, answer)
          ELSE IF BackoffBefore(c.attempt, DEFAULT_MAX_RETRIES)
          THEN [c EXCEPT !.pc = "sleep"]
          ELSE FetchReturns(c, "null")
  /\ UNCHANGED notCallVars

\* the backoff's sleep ended: the next attempt's request is sent
BackoffEnds ==
  /\ remoteCalls.pc = "sleep"
  /\ remoteCalls' = SendRequest(remoteCalls, remoteCalls.call, remoteCalls.attempt + 1)
  /\ UNCHANGED notCallVars

\* getToken() / getCached() returned: this.fetch is called
StorageAwaited ==
  /\ remoteCalls.pc = "storage"
  /\ remoteCalls' = SendRequest(remoteCalls, remoteCalls.call, 0)
  /\ UNCHANGED notCallVars

\* the page is destroyed or replaced while search() runs: abortController.abort()
SignalAborts ==
  /\ remoteCalls.pc \in {"bgFetch", "sleep", "storage"}
  /\ ~remoteCalls.signal
  /\ remoteCalls' = [remoteCalls EXCEPT !.signal = TRUE]
  /\ UNCHANGED notCallVars

NextCalls ==
  \/ \E adapter \in CallAdapters, allTitles \in TitleLists : ApiSearch(adapter, allTitles)
  \/ \E answer \in Answers : RequestEnds(answer)
  \/ BackoffEnds
  \/ StorageAwaited
  \/ SignalAborts

SpecCalls == InitRace /\ [][NextCalls]_vars

----------------------------------------------------------------------------
(* C33: the requests of one search *)

\* C33: in one search() the requests to the remote search are sent one after
\* another, never two in flight, and no more of them than there are titles
C33_SequentialAtMostTitles ==
  /\ remoteCalls.inFlight <= 1
  /\ remoteCalls.requests <= Len(remoteCalls.titles)

\* C33, amended: in one search() the requests are sent one after another, never
\* two in flight; searchByTitle is called at most once per title, and each of
\* its queries is sent at most DEFAULT_MAX_RETRIES times
C33_SequentialAtMostAttempts ==
  /\ remoteCalls.inFlight <= 1
  /\ remoteCalls.queries <= Len(remoteCalls.titles)
  /\ remoteCalls.requests <= DEFAULT_MAX_RETRIES * remoteCalls.queries

\* every attempt of the queries of both titles has failed: six requests were
\* sent, the last is in flight
C33_Witness ==
  /\ remoteCalls.pc = "bgFetch" /\ remoteCalls.call = "search"
  /\ remoteCalls.inFlight = 1
  /\ remoteCalls.queries = Len(remoteCalls.titles)
  /\ remoteCalls.requests = DEFAULT_MAX_RETRIES * Len(remoteCalls.titles)

----------------------------------------------------------------------------
(* C34: cancellation and the remote calls *)

\* C34: once the signal is aborted search() sends no further request: not for
\* a title, a candidate, the metrics or the bookmark, and not for a retry
C34_NoRequestAfterAbort == ~remoteCalls.late

----------------------------------------------------------------------------
(* loadPlatformData of targets that are resolved to a slug: loadCachedResult,
   api.getData and its cacheResult, for several targets at once on the same
   Metrics object *)

\* loadPlatformData(t) is called for a target resolved to ResolvedSlug[t]:
\* store.loadCachedResult(t) is awaited
LoadResolved(w, tp) ==
  /\ writers[w].pc = "idle"
  /\ \A v \in Writers : v < w => writers[v].pc # "idle"
  /\ writers' = [writers EXCEPT ![w] = [IdleWriter EXCEPT !.pc = "loadCachedResult",
                                                             !.op = "load", !.tp = tp]]
  /\ UNCHANGED <<cache, now, events, notRefreshVars>>

\* a load ends: what it did (cached: answered from the Metrics cache; fetched:
\* the remote was called and the data written; null: the remote gave no data)
LoadEnds(w, op) ==
  [IdleWriter EXCEPT !.pc = "done", !.op = op, !.tp = writers[w].tp, !.at = now]

\* loadCachedResult's cache.get returned, then (on a miss) api.getData is called
\* and its getCached returned: the entry, or null and the request is sent
LoadCacheGet(w) ==
  /\ writers[w].pc \in {"loadCachedResult", "getCached"}
  /\ LET tp == writers[w].tp
         hit == CacheGetHits(cache, tp, ResolvedSlug[tp], now)
     IN writers' = [writers EXCEPT ![w] =
                      IF hit THEN LoadEnds(w, "cached")
                      ELSE [writers[w] EXCEPT !.pc = IF writers[w].pc = "loadCachedResult"
                                                     THEN "getCached" ELSE "fetch"]]
  /\ UNCHANGED <<cache, now, events, notRefreshVars>>

\* the metrics request returned: without data getData returns null; with data
\* cacheResult -> cache.set is called, "const all = await this.getAll()"
LoadFetched(w, ok) ==
  /\ writers[w].pc = "fetch"
  /\ writers' = [writers EXCEPT ![w] =
                   IF ok THEN [writers[w] EXCEPT !.pc = "cacheSet", !.all = cache]
                   ELSE LoadEnds(w, "null")]
  /\ UNCHANGED <<cache, now, events, notRefreshVars>>

\* cache.set: the entry is put into the copy and the copy is written
LoadCached(w) ==
  /\ writers[w].pc = "cacheSet"
  /\ cache' = CacheSet(RmwBase(writers[w].all, cache), writers[w].tp,
                       ResolvedSlug[writers[w].tp], RemoteMetrics, now)
  /\ writers' = [writers EXCEPT ![w] = LoadEnds(w, "fetched")]
  /\ UNCHANGED <<now, events, notRefreshVars>>

NextLoad ==
  \/ \E w \in Writers, tp \in RaceTargets : LoadResolved(w, tp)
  \/ \E w \in Writers : LoadCacheGet(w)
  \/ \E w \in Writers, ok \in BOOLEAN : LoadFetched(w, ok)
  \/ \E w \in Writers : LoadCached(w)
  \/ Tick

SpecLoad == InitRace /\ [][NextLoad]_vars

----------------------------------------------------------------------------
(* C35: the Metrics cache is read before the remote is called *)

\* the Metrics entry of the target of load w is stored and t is before its expiry
LiveEntry(all, w, t) ==
  LET tp == writers[w].tp
  IN /\ CacheHas(all, tp, ResolvedSlug[tp])
     /\ t < all[tp][ResolvedSlug[tp]].expires

\* no Metrics entry of the target of load w is stored, or t is past its expiry
NoEntry(all, w, t) ==
  LET tp == writers[w].tp
  IN CacheHas(all, tp, ResolvedSlug[tp]) => t > all[tp][ResolvedSlug[tp]].expires

\* load w reads the Metrics cache: cache.get of loadCachedResult or of getData
ReadsCache(w) ==
  /\ writers[w].pc \in {"loadCachedResult", "getCached"}
  /\ writers'[w] # writers[w]

\* an earlier load of the same target has fetched the metrics and written them
\* to the cache, and t is within the TTL of that write
FetchedWithinTtl(w, t) ==
  \E v \in Writers \ {w} :
    /\ writers[v].pc = "done" /\ writers[v].op = "fetched"
    /\ writers[v].tp = writers[w].tp
    /\ t < writers[v].at + DEFAULT_TTL

\* the parts of C35 on a single load: with a live entry it ends without a
\* request; without one it goes on to api.getData and then to the request; a
\* request that yields data is followed by the write of the entry, which
\* expires one TTL later
SingleLoad(w) ==
  /\ (ReadsCache(w) /\ LiveEntry(cache, w, now)) =>
       (writers'[w].pc = "done" /\ writers'[w].op = "cached")
  /\ (ReadsCache(w) /\ NoEntry(cache, w, now)) =>
       writers'[w].pc = IF writers[w].pc = "loadCachedResult" THEN "getCached" ELSE "fetch"
  /\ (writers[w].pc = "fetch" /\ writers'[w] # writers[w]) =>
       writers'[w].pc \in {"cacheSet", "done"}
  /\ (writers[w].pc = "cacheSet" /\ writers'[w].pc = "done") =>
       /\ writers'[w].op = "fetched"
       /\ CacheHas(cache', writers[w].tp, ResolvedSlug[writers[w].tp])
       /\ cache'[writers[w].tp][ResolvedSlug[writers[w].tp]].expires = now + DEFAULT_TTL

\* C35: a load of a target resolved to x answers from a live Metrics entry
\* (t, x) without a request; without one it makes one metrics request and
\* writes the data to the cache, so that the next load within the TTL makes
\* no request
C35_CachedLoadsDoNotFetch ==
  [][\A w \in Writers :
       /\ SingleLoad(w)
       /\ (ReadsCache(w) /\ FetchedWithinTtl(w, now)) =>
            (writers'[w].pc = "done" /\ writers'[w].op = "cached")]_vars

\* C35, amended: the same on a single load; a later load makes no request as
\* long as the entry is still stored and its expiry has not come
C35_LiveEntryIsNotFetched ==
  [][\A w \in Writers : SingleLoad(w)]_vars

\* a load has fetched and cached the metrics, and a second load of the same
\* target has been answered from that entry
C35_Witness ==
  \E v, w \in Writers :
    /\ writers[v].pc = "done" /\ writers[v].op = "fetched"
    /\ writers[w].pc = "done" /\ writers[w].op = "cached"
    /\ writers[w].tp = writers[v].tp
    /\ LiveEntry(cache, v, writers[w].at)

----------------------------------------------------------------------------
(* C36: getAllForSlug and get on the same entries *)

\* C36: at every instant, for every work and target, getAllForSlug(p, s) holds
\* the target exactly when get(p, s, t) returns a value and not null: the two
\* reads of the Auto partition agree on which entries are valid, also at
\* now = expires
C36_GetAllForSlugAgreesWithGet ==
  \A slug \in WorkSlugs, tp \in Targets :
    (tp \in DOMAIN AutoGetAllForSlug(auto, site, slug, now))
      <=> (AutoGet(auto, site, slug, tp, now) # Null)

\* the two reads agree on every entry that is not at the instant of its expiry
AgreeOffExpiry ==
  \A slug \in WorkSlugs, tp \in Targets :
    (Has3(auto, site, slug, tp) => auto[site][slug][tp].expires # now) =>
      ((tp \in DOMAIN AutoGetAllForSlug(auto, site, slug, now))
         <=> (AutoGet(auto, site, slug, tp, now) # Null))

----------------------------------------------------------------------------
(* C37: the session state and the storage resolve alike *)

\* getSlugWithSource and getTargetSlug return the same slug and the same tier
\* for every target of the current work
SessionAgrees(cPlatform, cSlug, mLinks, aLinks, manualAll, autoAll, t) ==
  HasContext(cPlatform, cSlug) =>
    \A tp \in Targets :
      GetSlugWithSource(cPlatform, cSlug, mLinks, aLinks, tp)
        = GetTargetSlug(manualAll, autoAll, cPlatform, cSlug, tp, t)

\* a step of the adapter's own saveAutoMapping, after which the page's
\* store.saveAutoMapping is still to come
AdapterWrites == auto' # auto /\ autoLinks' = autoLinks

\* C37: with no store action in flight the session state and the storage
\* resolve every target of the current work to the same slug from the same
\* tier: every action of the store, run to its end, and every lapse of time
\* leave them in agreement
C37_SessionAgreesWithStorage ==
  [][(/\ SessionAgrees(currentPlatform, currentSlug, manualLinks, autoLinks,
                        manual, auto, now)
      /\ ~AdapterWrites)
       => SessionAgrees(currentPlatform', currentSlug', manualLinks', autoLinks',
                        manual', auto', now')]_vars

----------------------------------------------------------------------------
(* C38: the source identity of an Auto entry written by loadPlatformData *)

\* the step is the store.saveAutoMapping that loadPlatformData calls with the
\* outcome of its search
SavesOutcome(k) == tasks[k].pc \in {"pSavePos", "pSaveNeg"} /\ Steps(k)

\* C38: the Auto entry that loadPlatformData writes as the outcome of its search
\* is stored under the work whose titles the search was given: the entries of
\* every other work are left as they were, whatever the context of the session
\* state is when the search returns.
C38_AutoStoredUnderSearchedWork ==
  [][\A k \in TaskIds :
       SavesOutcome(k) =>
         \A slug \in WorkSlugs :
           slug # tasks[k].srcSlug =>
             SlugObj(auto', site, slug) = SlugObj(auto, site, slug)]_vars

----------------------------------------------------------------------------
(* The actions of the session store as they run: each one reads the context   *)
(* and, a delete, the links with get(), awaits the storage, and then calls    *)
(* set().  Two targets; the session stays on one work.                        *)

StoreOps == {"saveAutoMapping", "deleteAutoMapping", "saveManualLink", "deleteManualLink"}

notSessionVars == <<site, now, events, cache, currentPlatform, currentSlug, linksFor,
                    loading, loadingPlatforms, titles, url, routerVars, initPc, initPath,
                    pageVars, aborted, modalPlatform, taskVars, fetchCall, storageCall,
                    searchCall, remoteCalls>>

\* what the action keeps from get() on its call: deleteAutoMapping the autoLinks,
\* deleteManualLink the manualLinks, the saves only the context
LinksOnCall(op) ==
  IF op = "deleteAutoMapping" THEN autoLinks
  ELSE IF op = "deleteManualLink" THEN manualLinks
  ELSE EmptyObj

\* the action is called: "const { currentPlatform, currentSlug, ... } = get()", the
\* return without a context, and the await of the storage begins
StoreCalled(w, op, tp) ==
  /\ writers[w].pc = "idle"
  /\ \A v \in Writers : v < w => writers[v].pc # "idle"
  /\ HasContext(currentPlatform, currentSlug)
  /\ writers' = [writers EXCEPT ![w] = [IdleWriter EXCEPT !.pc = "storage", !.op = op,
                                                             !.tp = tp, !.all = LinksOnCall(op)]]
  /\ UNCHANGED <<manual, auto, manualLinks, autoLinks, negLoaded, notSessionVars>>

\* the storage call completed and set() is called: the saves spread the links of
\* the state at that moment, the deletes write the copy of the links of the call
StoreCompleted(w) ==
  /\ writers[w].pc = "storage"
  /\ writers[w].op \in StoreOps
  /\ LET op == writers[w].op
         tp == writers[w].tp
     IN /\ auto' = IF op = "saveAutoMapping"
                   THEN AutoSet(auto, currentPlatform, currentSlug, tp, ResolvedSlug[tp], now)
                   ELSE IF op = "deleteAutoMapping"
                   THEN Delete3(auto, currentPlatform, currentSlug, tp)
                   ELSE auto
        /\ autoLinks' = IF op = "saveAutoMapping" THEN Assign(autoLinks, tp, ResolvedSlug[tp])
                        ELSE IF op = "deleteAutoMapping" THEN Remove(writers[w].all, tp)
                        ELSE autoLinks
        /\ manual' = IF op = "saveManualLink"
                     THEN Put3(manual, currentPlatform, currentSlug, tp, ResolvedSlug[tp])
                     ELSE IF op = "deleteManualLink"
                     THEN Delete3(manual, currentPlatform, currentSlug, tp)
                     ELSE manual
        /\ manualLinks' = IF op = "saveManualLink" THEN Assign(manualLinks, tp, ResolvedSlug[tp])
                          ELSE IF op = "deleteManualLink" THEN Remove(writers[w].all, tp)
                          ELSE manualLinks
  /\ writers' = [writers EXCEPT ![w].pc = "done"]
  /\ UNCHANGED notSessionVars
  /\ NegLoadedStep

NextSession ==
  \/ StoreSetContext("a")
  \/ \E w \in Writers, op \in StoreOps, tp \in RaceTargets : StoreCalled(w, op, tp)
  \/ \E w \in Writers : StoreCompleted(w)

SpecSession == InitRace /\ [][NextSession]_vars

----------------------------------------------------------------------------
(* C39: what a delete of the store changes in the session links *)

\* the two link maps hold the same entries for every target but tp
SameButFor(links, links2, tp) ==
  \A t \in (DOMAIN links \cup DOMAIN links2) \ {tp} :
    /\ t \in DOMAIN links /\ t \in DOMAIN links2
    /\ links2[t] = links[t]

\* the step completes the store action op of call w
Completes(w, op) ==
  writers[w].pc = "storage" /\ writers[w].op = op /\ writers'[w].pc = "done"

\* C39: the step that completes deleteAutoMapping(t) changes no entry of the
\* session autoLinks but that of t, and the step that completes
\* deleteManualLink(t) no entry of the session manualLinks but that of t: the
\* entries that other store actions wrote while the delete awaited the storage
\* are still there.
C39_DeleteChangesOnlyItsTarget ==
  [][\A w \in Writers :
       /\ Completes(w, "deleteAutoMapping")
            => SameButFor(autoLinks, autoLinks', writers[w].tp)
       /\ Completes(w, "deleteManualLink")
            => SameButFor(manualLinks, manualLinks', writers[w].tp)]_vars

----------------------------------------------------------------------------
(* C40: a destroyed page *)

\* page j takes a step: of its initialize or render, or of one of its tasks
PageSteps(j) ==
  \/ pagePc'[j] # pagePc[j]
  \/ \E k \in TaskIds : tasks[k].page = j /\ Steps(k)

\* a loadPlatformData of page j goes past its first look at the signal
StartsDiscovery(j) ==
  \E tp \in Targets : tasks[<<j, tp>>].pc = "idle" /\ tasks'[<<j, tp>>].pc # "idle"

\* C40: once destroy() of a page has been called, no step of that page starts a
\* discovery (loadAllPlatformsData, adapter.search), mounts a container in the
\* DOM, or changes the session state (titles, manualLinks, autoLinks,
\* loadingPlatforms), also when its render() was awaiting at the time.
C40_DestroyedPageIsSilent ==
  [][\A j \in Navs :
       (destroyed[j] /\ PageSteps(j)) =>
         /\ ~StartsDiscovery(j)
         /\ j \notin ui => j \notin ui'
         /\ UNCHANGED <<titles, manualLinks, autoLinks, loadingPlatforms>>]_vars

====
